---- MODULE Spec2Model ----
(***************************************************************************)
(* Verification model of the configuration-resolution core of              *)
(* timeax/digital-service-engine: the node map, the visibility engine,     *)
(* the visibility simulation of the validation pipeline, and normalise     *)
(* with its constraint propagation.                                        *)
(*                                                                         *)
(* Representation of JavaScript values:                                    *)
(*   - a string id is a TLA+ string; "" stands for undefined / missing;    *)
(*   - an array is a sequence; a Set<string> is a duplicate-free sequence  *)
(*     in insertion order (JS sets iterate in insertion order);            *)
(*   - an object used as a map (Record<string, T>) is a function whose     *)
(*     DOMAIN is the set of its keys: a missing key is outside DOMAIN;     *)
(*   - a trigger key "a::b" is the sequence <<"a","b">> of its segments    *)
(*     around the separator "::", a plain key "a" is <<"a">>;              *)
(*   - field.bind_id (string | string[] | undefined) is the sequence of    *)
(*     the tag ids it names (<<>> for undefined, <<t>> for a string).      *)
(***************************************************************************)
EXTENDS Integers, Sequences, FiniteSets, TLC

VARIABLES
    pc,           \* position of the program: which call has been made
    props,        \* the ServiceProps document
    selectedKeys, \* the caller's selection (ctx.selectedOptionKeys)
    visTag,       \* tagId argument of the last visibleFieldIdsUnder call
    visOut,       \* its result
    visFields,    \* the result of the last visibleFieldsUnder call
    simOpts,      \* the SimulateVisibilityOptions given to validateVisibility
    vSelected,    \* v.selectedKeys, the validation context's current selection
    errors,       \* v.errors, the findings accumulated so far
    stack,        \* validateVisibility: the DFS stack of states
    visited,      \* validateVisibility: signatures of the visited selections
    validatedStates,  \* validateVisibility: its counter of validated states
    originalSelected, \* validateVisibility: its snapshot of the selection
    errorsStart,  \* validateVisibility: v.errors.length at entry
    ruleRuns,     \* history: the selections runVisibilityRulesOnce was run under
    laterVisible, \* what the pipeline step after validateVisibility sees per tag
    normIn,       \* the payload given to normalise
    normOut,      \* normalise(normIn)
    normAgain,    \* normalise(normOut)
    vNodeMap,     \* v.nodeMap, the node map of the validation context
    services,     \* the DgpServiceMap given to the fallback helpers
    settings,     \* the FallbackSettings given to the fallback helpers
    fbCall,       \* the parameters of the last resolveServiceFallback call
    fbOut,        \* its result
    fbFailed,     \* the result of collectFailedFallbacks
    idxTag,       \* node index: the tag a TagNode method was called on
    idxOut,       \* node index: what the method returned
    selOpts,      \* Selection: its SelectionOptions (env, rootTagId)
    selSet,       \* Selection.set, in insertion order
    primaryId,    \* Selection.primaryId ("" is undefined)
    currentTagId, \* Selection.currentTagId ("" is undefined)
    groupOut,     \* the result of the last Selection.visibleGroup call
    threads,      \* CommentsAPI.threads: the local threads by id
    backendThreads, \* the ids of the threads the comments backend holds
    retryJobs     \* the jobs queued in CommentsAPI.retry, by job id

(***************************************************************************)
(* Generic helpers                                                         *)
(***************************************************************************)
SeqToSet(s) == {s[i] : i \in DOMAIN s}

Contains(s, x) == \E i \in DOMAIN s : s[i] = x

EmptyMap == [x \in {} |-> 0]

\* Set.add on an insertion-ordered set
SetAdd(s, x) == IF Contains(s, x) THEN s ELSE Append(s, x)

\* Array.from(new Set(arr)): first occurrences, in order
RECURSIVE dedupe(_)
dedupe(arr) ==
    IF arr = <<>> THEN <<>>
    ELSE LET init == dedupe(SubSeq(arr, 1, Len(arr) - 1))
             last == arr[Len(arr)]
         IN  IF Contains(init, last) THEN init ELSE Append(init, last)

Min(S) == CHOOSE m \in S : \A n \in S : m <= n

\* "no depth": the undefined returned by the ownerDepth helpers
NoDepth == -1

(***************************************************************************)
(* core/node-map.ts                                                        *)
(***************************************************************************)
\* a registration {kind, id, node, fieldId}: node is the position of the node
\* in the document, <<i>> for filters[i] or fields[i], <<i, j>> for
\* fields[i].options[j]
TagRegs(tags) ==
    [i \in DOMAIN tags |->
        [kind |-> "tag", id |-> tags[i].id, node |-> <<i>>, fieldId |-> ""]]

OptionRegs(f, i) ==
    [j \in DOMAIN f.options |->
        [kind |-> "option", id |-> f.options[j].id, node |-> <<i, j>>,
         fieldId |-> f.id]]

RECURSIVE FieldRegs(_, _)
FieldRegs(fields, i) ==
    IF i > Len(fields) THEN <<>>
    ELSE <<[kind |-> "field", id |-> fields[i].id, node |-> <<i>>, fieldId |-> ""]>>
         \o OptionRegs(fields[i], i) \o FieldRegs(fields, i + 1)

\* the map.set attempts of buildNodeMap in program order
Registrations(p) == TagRegs(p.filters) \o FieldRegs(p.fields, 1)

\* map.set only when the id is not yet a key: the first registration wins
FirstRegistrations(regs) ==
    [id \in {regs[i].id : i \in DOMAIN regs} |->
        regs[CHOOSE i \in DOMAIN regs :
                regs[i].id = id /\ \A j \in 1..(i - 1) : regs[j].id # id]]

\* map.set whatever the map holds: the last registration wins
LastRegistrations(regs) ==
    [id \in {regs[i].id : i \in DOMAIN regs} |->
        regs[CHOOSE i \in DOMAIN regs :
                regs[i].id = id /\ \A j \in (i + 1)..Len(regs) : regs[j].id # id]]

buildNodeMap_LastWins(p) == LastRegistrations(Registrations(p))

buildNodeMap(p) == FirstRegistrations(Registrations(p))

NoTrigger == [kind |-> "none", id |-> "", fieldId |-> "", optionId |-> ""]

\* resolveTrigger: a key holding "::" is composite whatever the node map says
resolveTrigger(trigger, nodeMap) ==
    IF Len(trigger) >= 2
    THEN [kind |-> "composite", id |-> "", fieldId |-> trigger[1],
          optionId |-> trigger[2]]
    ELSE IF trigger[1] \notin DOMAIN nodeMap THEN NoTrigger
    ELSE [kind |-> nodeMap[trigger[1]].kind, id |-> nodeMap[trigger[1]].id,
          fieldId |-> nodeMap[trigger[1]].fieldId, optionId |-> ""]

(***************************************************************************)
(* core/visibility.ts                                                      *)
(***************************************************************************)
\* new Map(items.map(x => [x.id, x])).get(id): the last item of that id,
\* as an index into the array; 0 when there is none
IndexById(items, id) ==
    IF \E i \in DOMAIN items : items[i].id = id
    THEN CHOOSE i \in DOMAIN items :
            items[i].id = id /\ \A j \in DOMAIN items : items[j].id = id => j <= i
    ELSE 0

\* the lineage walk: self = 0, parent = 1, ...; guarded against cycles
RECURSIVE LineageWalk(_, _, _, _)
LineageWalk(tags, cur, d, acc) ==
    IF cur = 0 \/ tags[cur].id \in DOMAIN acc THEN acc
    ELSE LineageWalk(tags,
                     IF tags[cur].bind_id # "" THEN IndexById(tags, tags[cur].bind_id) ELSE 0,
                     d + 1,
                     acc @@ (tags[cur].id :> d))

lineageDepth(p, tagId) == LineageWalk(p.filters, IndexById(p.filters, tagId), 0, EmptyMap)

\* the depths of the tags of the lineage a field is bound to
boundDepths(f, lineage) ==
    {lineage[id] : id \in SeqToSet(f.bind_id) \cap DOMAIN lineage}

\* mutant: a field bound only outside the lineage is given depth 0
ownerDepthForField_AnyBranch(f, lineage) ==
    IF f.bind_id = <<>> THEN NoDepth
    ELSE IF boundDepths(f, lineage) = {} THEN 0 ELSE Min(boundDepths(f, lineage))

ownerDepthForField(f, lineage) ==
    IF boundDepths(f, lineage) = {} THEN NoDepth ELSE Min(boundDepths(f, lineage))

\* the field a resolved trigger belongs to, as an index into fields (0: none)
ownerFieldOf(p, t) ==
    IndexById(p.fields, IF t.kind = "field" THEN t.id ELSE t.fieldId)

\* the branches of ownerDepthForTriggerKey on the resolved trigger t
ownerDepthOfResolved(p, lineage, t, fi) ==
    IF t.kind \notin {"composite", "field", "option"} THEN NoDepth
    ELSE IF fi = 0 THEN NoDepth
    ELSE IF t.kind = "field" /\ ~p.fields[fi].button THEN NoDepth
    ELSE ownerDepthForField(p.fields[fi], lineage)

ownerDepthOfTrigger(p, lineage, t) ==
    ownerDepthOfResolved(p, lineage, t, ownerFieldOf(p, t))

ownerDepthForTriggerKey(p, nodeMap, lineage, triggerKey) ==
    ownerDepthOfTrigger(p, lineage, resolveTrigger(triggerKey, nodeMap))

isBoundToLineage(f, lineage) ==
    \E i \in DOMAIN f.bind_id : f.bind_id[i] \in DOMAIN lineage

\* mutant: the decision processed last wins, whatever its depth
applyDecision_LastWins(decide, fieldId, next) ==
    IF fieldId \notin DOMAIN decide THEN decide @@ (fieldId :> next)
    ELSE [decide EXCEPT ![fieldId] = next]

\* mutant: closest depth wins, but at the same depth the first decision stays
applyDecision_NoTieBreak(decide, fieldId, next) ==
    IF fieldId \notin DOMAIN decide THEN decide @@ (fieldId :> next)
    ELSE IF next.depth < decide[fieldId].depth THEN [decide EXCEPT ![fieldId] = next]
    ELSE decide

\* mutant: the first decision on a field stands
applyDecision_FirstWins(decide, fieldId, next) ==
    IF fieldId \notin DOMAIN decide THEN decide @@ (fieldId :> next) ELSE decide

\* closest depth wins; at the same depth an exclude replaces an include
applyDecision(decide, fieldId, next) ==
    IF fieldId \notin DOMAIN decide THEN decide @@ (fieldId :> next)
    ELSE IF next.depth < decide[fieldId].depth THEN [decide EXCEPT ![fieldId] = next]
    ELSE IF next.depth > decide[fieldId].depth THEN decide
    ELSE IF decide[fieldId].kind = "include" /\ next.kind = "exclude"
         THEN [decide EXCEPT ![fieldId] = next]
         ELSE decide

MapGet(m, k) == IF k \in DOMAIN m THEN m[k] ELSE <<>>

RECURSIVE ApplyIds(_, _, _, _)
ApplyIds(decide, ids, depth, kind) ==
    IF ids = <<>> THEN decide
    ELSE ApplyIds(applyDecision(decide, Head(ids), [depth |-> depth, kind |-> kind]),
                  Tail(ids), depth, kind)

\* one round of the decision loop: the includes of a key, then its excludes
DecideKey(p, decide, key, depth) ==
    ApplyIds(ApplyIds(decide, MapGet(p.includes_for_buttons, key), depth, "include"),
             MapGet(p.excludes_for_buttons, key), depth, "exclude")

\* the loop over relevantTriggersInOrder
RECURSIVE Decisions(_, _, _, _, _)
Decisions(p, nodeMap, lineage, triggers, decide) ==
    IF triggers = <<>> THEN decide
    ELSE Decisions(p, nodeMap, lineage, Tail(triggers),
                   DecideKey(p, decide, Head(triggers),
                             ownerDepthForTriggerKey(p, nodeMap, lineage, Head(triggers))))

RECURSIVE Revealed(_, _)
Revealed(p, triggers) ==
    IF triggers = <<>> THEN <<>>
    ELSE MapGet(p.includes_for_buttons, Head(triggers)) \o Revealed(p, Tail(triggers))

relevantTriggersInOrder(p, nodeMap, lineage, selected) ==
    SelectSeq(selected,
              LAMBDA key : ownerDepthForTriggerKey(p, nodeMap, lineage, key) # NoDepth)

\* mutant: the includes and excludes of every tag of the lineage are applied
baseVisible_InheritedLists(p, tag, lineage) ==
    {p.fields[i].id : i \in {j \in DOMAIN p.fields :
        \/ isBoundToLineage(p.fields[j], lineage)
        \/ \E t \in DOMAIN p.filters :
              /\ p.filters[t].id \in DOMAIN lineage
              /\ Contains(p.filters[t].includes, p.fields[j].id)}}
    \ UNION {SeqToSet(p.filters[t].excludes) :
                t \in {u \in DOMAIN p.filters : p.filters[u].id \in DOMAIN lineage}}

\* the base candidates: bound fields inherited + the current tag's includes,
\* minus the current tag's excludes
baseVisible(p, tag, lineage) ==
    {p.fields[i].id : i \in {j \in DOMAIN p.fields :
        \/ isBoundToLineage(p.fields[j], lineage)
        \/ Contains(tag.includes, p.fields[j].id)}}
    \ SeqToSet(tag.excludes)

\* the final visible set, before ordering
visibleSet(base, decide) ==
    (base \cup {fid \in DOMAIN decide : decide[fid].kind = "include"})
    \ {fid \in DOMAIN decide : decide[fid].kind = "exclude"}

\* the ids of `first` that are visible, then the visible fields in their
\* natural order that `first` does not hold
orderedBy(p, visible, first) ==
    SelectSeq(first, LAMBDA fid : fid \in visible)
    \o SelectSeq([i \in DOMAIN p.fields |-> p.fields[i].id],
                 LAMBDA fid : fid \in visible /\ ~Contains(first, fid))

\* mutant: the pinned order of the tag is ignored
ordered_RevealedOnly(p, tagId, visible, revealedOrder) ==
    orderedBy(p, visible, revealedOrder)

\* the ordering: order_for_tags when the tag has one, else the revealed
\* fields promoted in the order of the selection
ordered(p, tagId, visible, revealedOrder) ==
    IF MapGet(p.order_for_tags, tagId) # <<>>
    THEN orderedBy(p, visible, MapGet(p.order_for_tags, tagId))
    ELSE orderedBy(p, visible, revealedOrder)

visibleForTriggers(p, nodeMap, tag, lineage, triggers) ==
    ordered(p, tag.id,
            visibleSet(baseVisible(p, tag, lineage),
                       Decisions(p, nodeMap, lineage, triggers, EmptyMap)),
            dedupe(Revealed(p, triggers)))

visibleInLineage(p, nodeMap, tag, lineage, selected) ==
    visibleForTriggers(p, nodeMap, tag, lineage,
                       relevantTriggersInOrder(p, nodeMap, lineage, selected))

visibleFieldIdsUnder(p, tagId, selected) ==
    IF IndexById(p.filters, tagId) = 0 THEN <<>>
    ELSE visibleInLineage(p, buildNodeMap(p), p.filters[IndexById(p.filters, tagId)],
                          lineageDepth(p, tagId), selected)

\* visibleFieldsUnder: the ids resolved to Field objects, unknown ids dropped
FieldsOfIds(p, ids) ==
    [i \in DOMAIN ids |-> p.fields[IndexById(p.fields, ids[i])]]

\* mutant: the visible fields are returned in the order of the document
visibleFieldsUnder_DocumentOrder(p, tagId, selected) ==
    LET ids == visibleFieldIdsUnder(p, tagId, selected)
    IN  SelectSeq(p.fields, LAMBDA f : Contains(ids, f.id))

visibleFieldsUnder(p, tagId, selected) ==
    FieldsOfIds(p, SelectSeq(visibleFieldIdsUnder(p, tagId, selected),
                             LAMBDA fid : IndexById(p.fields, fid) # 0))

(***************************************************************************)
(* Document constructors                                                   *)
(***************************************************************************)
Tag(id, bind, inc, exc) ==
    [id |-> id, bind_id |-> bind, includes |-> inc, excludes |-> exc,
     constraints |-> EmptyMap, constraints_origin |-> EmptyMap,
     constraints_overrides |-> EmptyMap]

\* service_id is <<n>> for the number n and <<>> when missing
Option(id, role) == [id |-> id, service_id |-> <<1>>, pricing_role |-> role]

Field(id, bind, button, options, label) ==
    [id |-> id, bind_id |-> bind, button |-> button, options |-> options,
     label |-> label, quantity |-> FALSE]

Doc(tags, fields, inc, exc) ==
    [filters |-> tags, fields |-> fields,
     includes_for_buttons |-> inc, excludes_for_buttons |-> exc,
     order_for_tags |-> EmptyMap]

\* a trigger map holding the keys of ks, each listing the field ids
MapOf(ks, ids) == [k \in ks |-> ids]

(***************************************************************************)
(* The documents of the visibility checks: the forest                      *)
(*     root <- A <- B,   root <- X                                         *)
(* a target field, and three trigger fields whose keys take the three      *)
(* shapes resolveTrigger knows: an option id, a composite fieldId::         *)
(* optionId, and a button-field id.                                        *)
(***************************************************************************)
KeyO1 == <<"o1">>
KeyF2O2 == <<"f2", "o2">>
KeyF3 == <<"f3">>
VisKeys == {KeyO1, KeyF2O2, KeyF3}

OptLists == {<<>>, <<"tgt">>}

\* what a trigger's include list names: a field that is not first in the
\* document, an id that is no field's, and the target
RevealList == <<"f3", "ghost", "tgt">>

\* what a trigger key does to the target: listed in includes_for_buttons,
\* in excludes_for_buttons, or (the button field only) in both
KeyEffects ==
    {m \in [VisKeys -> {"inc", "exc", "both"}] :
        m[KeyO1] # "both" /\ m[KeyF2O2] # "both"}

VisDocs ==
    { Doc(<<Tag("root", "", <<>>, <<>>),
            Tag("A", "root", aInc, aExc),
            Tag("B", "A", <<>>, bExc),
            Tag("X", "root", <<>>, <<>>)>>,
          <<Field("tgt", tb, FALSE, <<>>, "Target"),
            Field("f1", b1, FALSE, <<Option("o1", "base")>>, "One"),
            Field("f2", b2, FALSE, <<Option("o2", "base")>>, "Two"),
            Field("f3", b3, TRUE, <<>>, "Three")>>,
          MapOf({k \in VisKeys : m[k] \in {"inc", "both"}}, RevealList),
          MapOf({k \in VisKeys : m[k] \in {"exc", "both"}}, <<"tgt">>)) :
        aInc \in OptLists, aExc \in {<<>>, <<"tgt", "f2">>}, bExc \in OptLists,
        tb \in {<<>>, <<"root">>, <<"A">>},
        b1 \in {<<"A">>, <<"B">>, <<"X">>},
        b2 \in {<<"A">>, <<"root", "B">>},
        b3 \in {<<"root">>, <<"B">>},
        m \in KeyEffects }

\* the length of the longest selection the caller builds
MaxSel == 3

VisTags == {"A", "B"}

simVars == <<simOpts, vSelected, errors, stack, visited, validatedStates,
             originalSelected, errorsStart, ruleRuns, laterVisible>>

visVars == <<visTag, visOut, visFields>>

normVars == <<normIn, normOut, normAgain>>

mapVars == <<vNodeMap>>

fbVars == <<services, settings, fbCall, fbOut, fbFailed>>

idxVars == <<idxTag, idxOut>>

selVars == <<selOpts, selSet, primaryId, currentTagId, groupOut>>

cmtVars == <<threads, backendThreads, retryJobs>>

uiVars == <<idxVars, selVars, cmtVars>>

coreVars == <<mapVars, fbVars, uiVars>>

vars == <<pc, props, selectedKeys, visVars, simVars, normVars, coreVars>>

\* an optional number is <<n>>, or <<>> when the caller leaves it out
NoOptions == [simulate |-> FALSE, maxStates |-> <<>>, maxDepth |-> <<>>,
              simulateAllRoots |-> FALSE, onlyEffectfulTriggers |-> TRUE]

\* the variables of validateVisibility before any call
SimIdle ==
    /\ simOpts = NoOptions
    /\ vSelected = <<>>
    /\ errors = <<>>
    /\ stack = <<>>
    /\ visited = {}
    /\ validatedStates = 0
    /\ originalSelected = <<>>
    /\ errorsStart = 0
    /\ ruleRuns = <<>>
    /\ laterVisible = EmptyMap

VisIdle == visTag = "" /\ visOut = <<>> /\ visFields = <<>>

\* the variables of normalise before any call
NormIdle == normIn = <<>> /\ normOut = <<>> /\ normAgain = <<>>

\* the validation context before validate builds its node map
MapIdle == vNodeMap = EmptyMap

\* the variables of the fallback helpers before any call
FbIdle ==
    /\ services = EmptyMap
    /\ settings = EmptyMap
    /\ fbCall = <<>>
    /\ fbOut = <<>>
    /\ fbFailed = <<>>

\* no node index method called yet
IdxIdle == idxTag = "" /\ idxOut = <<>>

\* no Selection constructed
SelIdle ==
    /\ selOpts = EmptyMap
    /\ selSet = <<>>
    /\ primaryId = ""
    /\ currentTagId = ""
    /\ groupOut = <<>>

\* no CommentsAPI constructed
CmtIdle == threads = EmptyMap /\ backendThreads = {} /\ retryJobs = EmptyMap

UiIdle == IdxIdle /\ SelIdle /\ CmtIdle

CoreIdle == MapIdle /\ FbIdle /\ UiIdle

InitVis ==
    /\ pc = "select"
    /\ props \in VisDocs
    /\ selectedKeys = <<>>
    /\ VisIdle
    /\ SimIdle
    /\ NormIdle
    /\ CoreIdle

\* the caller adds a key to its selection
SelectKey ==
    /\ pc = "select"
    /\ Len(selectedKeys) < MaxSel
    /\ \E k \in VisKeys :
          /\ ~Contains(selectedKeys, k)
          /\ selectedKeys' = SetAdd(selectedKeys, k)
    /\ UNCHANGED <<coreVars, normVars, pc, props, visVars, simVars>>

\* the caller asks for the visible group of a tag
CallVisible ==
    /\ pc = "select"
    /\ \E t \in VisTags :
          /\ visTag' = t
          /\ visOut' = visibleFieldIdsUnder(props, t, selectedKeys)
    /\ pc' = "visible"
    /\ UNCHANGED <<coreVars, normVars, props, selectedKeys, simVars, visFields>>

\* the caller asks for the visible fields of a tag
CallVisibleFields ==
    /\ pc = "select"
    /\ \E t \in VisTags :
          /\ visTag' = t
          /\ visFields' = visibleFieldsUnder(props, t, selectedKeys)
    /\ pc' = "fields"
    /\ UNCHANGED <<coreVars, normVars, props, selectedKeys, simVars, visOut>>

NextVis == SelectKey \/ CallVisible \/ CallVisibleFields

SpecVis == InitVis /\ [][NextVis]_vars

(***************************************************************************)
(* Notions the visibility claims are stated with. They are read off the    *)
(* document directly (ids are unique in the documents above), not through  *)
(* the engine's own helpers.                                               *)
(***************************************************************************)
TagNamed(p, t) == p.filters[CHOOSE i \in DOMAIN p.filters : p.filters[i].id = t]

HasTag(p, t) == \E i \in DOMAIN p.filters : p.filters[i].id = t

\* the number of bind_id steps from tag `from` up to tag `to`
RECURSIVE StepsUp(_, _, _, _)
StepsUp(p, from, to, fuel) ==
    IF from = to THEN 0
    ELSE IF fuel = 0 \/ ~HasTag(p, from) \/ TagNamed(p, from).bind_id = "" THEN NoDepth
    ELSE LET r == StepsUp(p, TagNamed(p, from).bind_id, to, fuel - 1)
         IN  IF r = NoDepth THEN NoDepth ELSE r + 1

\* the fields a selected key belongs to: the field of a composite key, a
\* button field of that id, or the field holding an option of that id
KeyOwners(p, key) ==
    {i \in DOMAIN p.fields :
        IF Len(key) = 2 THEN p.fields[i].id = key[1]
        ELSE \/ p.fields[i].id = key[1] /\ p.fields[i].button
             \/ \E j \in DOMAIN p.fields[i].options : p.fields[i].options[j].id = key[1]}

\* the lineage depth of a key under tagId: the least distance from tagId to a
\* tag one of its owners is bound to; NoDepth when no bind lies in the lineage
KeyDepth(p, tagId, key) ==
    LET ds == {StepsUp(p, tagId, p.fields[i].bind_id[b], Len(p.filters)) :
                  <<i, b>> \in {<<i, b>> \in KeyOwners(p, key) \X (1..4) :
                                   b \in DOMAIN p.fields[i].bind_id}} \ {NoDepth}
    IN  IF ds = {} THEN NoDepth ELSE Min(ds)

KeyIncludes(p, key, fid) == Contains(MapGet(p.includes_for_buttons, key), fid)
KeyExcludes(p, key, fid) == Contains(MapGet(p.excludes_for_buttons, key), fid)

\* the selected keys that are relevant under the tag of the last call
RelevantSelected ==
    {k \in SeqToSet(selectedKeys) : KeyDepth(props, visTag, k) # NoDepth}

FieldIdsOf(p) == {p.fields[i].id : i \in DOMAIN p.fields}

BoundTo(p, i, tags) == \E b \in DOMAIN p.fields[i].bind_id : p.fields[i].bind_id[b] \in tags

WithoutExcludesOf(p, t) ==
    [p EXCEPT !.filters =
        [i \in DOMAIN p.filters |->
            IF p.filters[i].id = t THEN [p.filters[i] EXCEPT !.excludes = <<>>]
            ELSE p.filters[i]]]

CalledUnderB == pc = "visible" /\ visTag = "B" /\ RelevantSelected = {}

\* C3 (as stated): under B of root <- A <- B, with no relevant trigger selected,
\* every field bound to root or A is visible, a field listed only in A.includes
\* is not, and A.excludes removes nothing.
C3_AsStated ==
    CalledUnderB =>
        /\ \A i \in DOMAIN props.fields :
              BoundTo(props, i, {"root", "A"}) => Contains(visOut, props.fields[i].id)
        /\ \A i \in DOMAIN props.fields :
              (/\ Contains(TagNamed(props, "A").includes, props.fields[i].id)
               /\ ~BoundTo(props, i, {"root", "A", "B"})
               /\ ~Contains(TagNamed(props, "B").includes, props.fields[i].id))
              => ~Contains(visOut, props.fields[i].id)
        /\ visOut = visibleFieldIdsUnder(WithoutExcludesOf(props, "A"), "B", selectedKeys)

\* C3 (amended): the same, for the fields bound to root or A that B's own
\* excludes do not list: B.excludes applies at B.
C3_LineageInheritance ==
    CalledUnderB =>
        /\ \A i \in DOMAIN props.fields :
              (/\ BoundTo(props, i, {"root", "A"})
               /\ ~Contains(TagNamed(props, "B").excludes, props.fields[i].id))
              => Contains(visOut, props.fields[i].id)
        /\ \A i \in DOMAIN props.fields :
              (/\ Contains(TagNamed(props, "A").includes, props.fields[i].id)
               /\ ~BoundTo(props, i, {"root", "A", "B"})
               /\ ~Contains(TagNamed(props, "B").includes, props.fields[i].id))
              => ~Contains(visOut, props.fields[i].id)
        /\ visOut = visibleFieldIdsUnder(WithoutExcludesOf(props, "A"), "B", selectedKeys)

\* a call under B with a key of another branch selected, where A.includes
\* lists the unbound target, A.excludes lists f2 (bound into the lineage)
\* and the result holds f2 and not the target
C3_Witness ==
    /\ CalledUnderB
    /\ selectedKeys # <<>>
    /\ props.fields[1].bind_id = <<>>
    /\ TagNamed(props, "A").includes = <<"tgt">>
    /\ TagNamed(props, "A").excludes = <<"tgt", "f2">>
    /\ Contains(visOut, "f2")
    /\ ~Contains(visOut, "tgt")

\* the relevant selected keys that decide on fid, and the closest of them
Deciders(fid) ==
    {k \in SeqToSet(selectedKeys) :
        /\ KeyIncludes(props, k, fid) \/ KeyExcludes(props, k, fid)
        /\ KeyDepth(props, visTag, k) # NoDepth}

ClosestDepth(fid) == Min({KeyDepth(props, visTag, k) : k \in Deciders(fid)})

Closest(fid) == {k \in Deciders(fid) : KeyDepth(props, visTag, k) = ClosestDepth(fid)}

\* C4: the decisions of the closest depth settle a field: when the closest
\* deciding triggers only include it, it is visible, when they only exclude
\* it, it is not, whatever farther triggers say; a key's depth is the least
\* depth among its owner's binds in the lineage (KeyDepth).
C4_ClosestDepthWins ==
    pc = "visible" =>
        \A fid \in FieldIdsOf(props) :
            Deciders(fid) # {} =>
                /\ (\A k \in Closest(fid) : ~KeyExcludes(props, k, fid))
                      => Contains(visOut, fid)
                /\ (\A k \in Closest(fid) : ~KeyIncludes(props, k, fid))
                      => ~Contains(visOut, fid)

\* under B: o1 (owner bound to A, depth 1) excludes the target, f2::o2 (owner
\* bound to root and B, depth 0 and not 2) includes it, and it is visible
C4_Witness ==
    /\ pc = "visible" /\ visTag = "B"
    /\ props.fields[2].bind_id = <<"A">>
    /\ props.fields[3].bind_id = <<"root", "B">>
    /\ {KeyO1, KeyF2O2} \subseteq RelevantSelected
    /\ KeyExcludes(props, KeyO1, "tgt") /\ KeyIncludes(props, KeyF2O2, "tgt")
    /\ KeyDepth(props, "B", KeyO1) = 1 /\ KeyDepth(props, "B", KeyF2O2) = 0
    /\ Contains(visOut, "tgt")

\* k1 and k2 are two relevant selected keys of the same depth, k1 including
\* fid and k2 excluding it
Tied(fid, k1, k2) ==
    /\ k1 # k2
    /\ KeyIncludes(props, k1, fid) /\ KeyExcludes(props, k2, fid)
    /\ KeyDepth(props, visTag, k1) # NoDepth
    /\ KeyDepth(props, visTag, k1) = KeyDepth(props, visTag, k2)

\* C5 (as stated): a tie of an include and an exclude at one depth leaves the
\* field out of the visible set.
C5_AsStated ==
    pc = "visible" =>
        \A fid \in FieldIdsOf(props) : \A k1, k2 \in SeqToSet(selectedKeys) :
            Tied(fid, k1, k2) => ~Contains(visOut, fid)

\* C5 (amended): it does so unless a selected relevant trigger of a smaller
\* depth includes the field.
C5_ExcludeWinsTie ==
    pc = "visible" =>
        \A fid \in FieldIdsOf(props) : \A k1, k2 \in SeqToSet(selectedKeys) :
            (/\ Tied(fid, k1, k2)
             /\ ~\E k \in SeqToSet(selectedKeys) :
                    /\ KeyIncludes(props, k, fid)
                    /\ KeyDepth(props, visTag, k) # NoDepth
                    /\ KeyDepth(props, visTag, k) < KeyDepth(props, visTag, k1))
            => ~Contains(visOut, fid)

\* the excluding key o1 was selected first, the including key f2::o2 second,
\* both owners are bound to A, and the target bound to root is hidden under A
C5_Witness ==
    /\ pc = "visible" /\ visTag = "A"
    /\ selectedKeys = <<KeyO1, KeyF2O2>>
    /\ props.fields[1].bind_id = <<"root">>
    /\ Tied("tgt", KeyF2O2, KeyO1)
    /\ KeyExcludes(props, KeyO1, "tgt") /\ ~KeyIncludes(props, KeyO1, "tgt")
    /\ ~Contains(visOut, "tgt")

RemoveKey(s, k) == SelectSeq(s, LAMBDA x : x # k)

\* C6: a selected key that is not relevant under tagId changes nothing: the
\* result is the one of the selection without that key.
C6_UnrelatedKeysIgnored ==
    pc = "visible" =>
        \A k \in SeqToSet(selectedKeys) \ RelevantSelected :
            visOut = visibleFieldIdsUnder(props, visTag, RemoveKey(selectedKeys, k))

\* under B: o1, whose owner is bound to the sibling branch X and which
\* excludes the target, is selected with a relevant key, and the target
\* (bound to root, not excluded at B) stays visible
C6_Witness ==
    /\ pc = "visible" /\ visTag = "B"
    /\ props.fields[2].bind_id = <<"X">>
    /\ KeyExcludes(props, KeyO1, "tgt")
    /\ Contains(selectedKeys, KeyO1)
    /\ RelevantSelected # {}
    /\ \A k \in RelevantSelected : ~KeyExcludes(props, k, "tgt")
    /\ props.fields[1].bind_id = <<"root">>
    /\ TagNamed(props, "B").excludes = <<>>
    /\ Contains(visOut, "tgt")

(***************************************************************************)
(* core/validate/steps/visibility.ts: the visibility rules and their       *)
(* simulation                                                              *)
(***************************************************************************)
\* String.prototype.trim on the labels of the documents below, whose only
\* labels holding white space are the blank ones
trim(label) == IF label \in {"", " "} THEN "" ELSE label

Finding(code, nodeId, tagId, other, label, ids) ==
    [code |-> code, nodeId |-> nodeId, tagId |-> tagId, other |-> other,
     message |-> <<code, label, tagId>>, ids |-> ids]

\* duplicate_visible_label under one tag: every visible field whose trimmed
\* label was seen on an earlier visible field
duplicateLabels(tagId, visible) ==
    LET dup == SelectSeq([i \in DOMAIN visible |-> i], LAMBDA i :
                  /\ trim(visible[i].label) # ""
                  /\ \E j \in 1..(i - 1) : trim(visible[j].label) = trim(visible[i].label))
        first(i) == CHOOSE j \in 1..(i - 1) :
                       /\ trim(visible[j].label) = trim(visible[i].label)
                       /\ \A k \in 1..(j - 1) : trim(visible[k].label) # trim(visible[i].label)
    IN  [n \in DOMAIN dup |->
            Finding("duplicate_visible_label", visible[dup[n]].id, tagId,
                    visible[first(dup[n])].id, trim(visible[dup[n]].label), <<>>)]

\* quantity_multiple_markers under one tag
quantityMarkers(tagId, visible) ==
    LET marked  == SelectSeq(visible, LAMBDA f : f.quantity)
        markers == [i \in DOMAIN marked |-> marked[i].id]
    IN  IF Len(markers) > 1
        THEN <<Finding("quantity_multiple_markers", tagId, tagId, "", "", markers)>>
        ELSE <<>>

RECURSIVE OptionsOf(_)
OptionsOf(visible) ==
    IF visible = <<>> THEN <<>>
    ELSE SelectSeq(Head(visible).options, LAMBDA o : o.service_id # <<>>)
         \o OptionsOf(Tail(visible))

\* utility_without_base under one tag
utilityWithoutBase(tagId, visible) ==
    LET opts    == OptionsOf(visible)
        utility == SelectSeq(opts, LAMBDA o : o.pricing_role = "utility")
        hasBase == \E i \in DOMAIN opts : opts[i].pricing_role = "base"
    IN  IF utility # <<>> /\ ~hasBase
        THEN <<Finding("utility_without_base", tagId, tagId, "", "",
                       [i \in DOMAIN utility |-> utility[i].id])>>
        ELSE <<>>

\* the rule of a pass: the function runs three loops over the tags, one per
\* rule
ruleOfPass(pass, tagId, visible) ==
    IF pass = 1 THEN duplicateLabels(tagId, visible)
    ELSE IF pass = 2 THEN quantityMarkers(tagId, visible)
    ELSE utilityWithoutBase(tagId, visible)

RECURSIVE RulePass(_, _, _, _)
RulePass(pass, p, selected, i) ==
    IF i > Len(p.filters) THEN <<>>
    ELSE ruleOfPass(pass, p.filters[i].id, visibleFieldsUnder(p, p.filters[i].id, selected))
         \o RulePass(pass, p, selected, i + 1)

\* runVisibilityRulesOnce: the findings it pushes, three passes over the tags
runVisibilityRulesOnce(p, selected) ==
    RulePass(1, p, selected, 1) \o RulePass(2, p, selected, 1) \o RulePass(3, p, selected, 1)

keyOfErr(e) == <<e.code, e.nodeId, e.tagId, e.other, e.message>>

\* no finding removed at all
dedupeErrors_Kept(errs, startIndex) == errs

\* dedupeErrorsInPlace: from startIndex on, the first finding of every key
dedupeErrors(errs, startIndex) ==
    LET kept == SelectSeq([i \in DOMAIN errs |-> i], LAMBDA i :
                   \/ i <= startIndex
                   \/ \A j \in (startIndex + 1)..(i - 1) : keyOfErr(errs[j]) # keyOfErr(errs[i]))
    IN  [n \in DOMAIN kept |-> errs[kept[n]]]

DefaultMaxStates == 500
DefaultMaxDepth == 6

Max2(a, b) == IF a >= b THEN a ELSE b

OrDefault(opt, default) == IF opt = <<>> THEN default ELSE opt[1]

\* mutant: options.maxStates ?? 500, a cap of 0 taken as it is
maxStatesOf_Unclamped(o) == OrDefault(o.maxStates, DefaultMaxStates)

\* Math.max(1, options.maxStates ?? 500)
maxStatesOf(o) == Max2(1, OrDefault(o.maxStates, DefaultMaxStates))

\* Math.max(0, options.maxDepth ?? 6)
maxDepthOf(o) == Max2(0, OrDefault(o.maxDepth, DefaultMaxDepth))

\* the keys of the simulated documents in the order of Array.prototype.sort
\* (code-unit order of "f1::o1", "f2::o2", "f3", "o1")
KeyOrder == <<<<"f1", "o1">>, <<"f2", "o2">>, <<"f3">>, <<"o1">>>>

sortKeys(keys) == SelectSeq(KeyOrder, LAMBDA k : k \in keys)

\* stableKeyOfSelection: the sorted keys joined by "|" (no key holds a "|")
stableKeyOfSelection(selected) == sortKeys(SeqToSet(selected))

resolveRootTags(tags) ==
    LET roots == SelectSeq(tags, LAMBDA t : t.bind_id = "")
    IN  IF roots # <<>> THEN roots ELSE SubSeq(tags, 1, 1)

isEffectfulTrigger(p, trigger) ==
    \/ Len(MapGet(p.includes_for_buttons, trigger)) > 0
    \/ Len(MapGet(p.excludes_for_buttons, trigger)) > 0

\* the candidate triggers of the visible fields: the id of a button field,
\* and the composite fieldId::optionId of every option
triggersOfField(f) ==
    (IF f.button THEN {<<f.id>>} ELSE {})
    \cup {<<f.id, f.options[j].id>> : j \in DOMAIN f.options}

triggersOfVisible(visible) ==
    UNION {triggersOfField(visible[i]) : i \in DOMAIN visible}

collectSelectableTriggersInContext(p, tagId, selected, onlyEffectful) ==
    sortKeys({t \in triggersOfVisible(visibleFieldsUnder(p, tagId, selected)) :
                 ~onlyEffectful \/ isEffectfulTrigger(p, t)})

\* the states pushed for the triggers of a visited state: in reverse, so
\* that the earliest trigger is popped first
RECURSIVE pushNext(_, _, _)
pushNext(stk, state, triggers) ==
    IF triggers = <<>> THEN stk
    ELSE LET trig == triggers[Len(triggers)]
             rest == SubSeq(triggers, 1, Len(triggers) - 1)
         IN  IF Contains(state.selected, trig) THEN pushNext(stk, state, rest)
             ELSE pushNext(Append(stk, [rootTagId |-> state.rootTagId,
                                        selected |-> SetAdd(state.selected, trig),
                                        depth |-> state.depth + 1]),
                           state, rest)

\* mutant: the cap is tested with > in place of >=
capReached_OffByOne(validated, maxStates) == validated > maxStates

\* the loop's exit test, and its test for expanding a visited state
capReached(validated, maxStates) == validated >= maxStates

expandable(depth, maxDepth) == ~(depth >= maxDepth)

\* mutant: the selection of the last simulated state is left in the context
restoredSelection_Forgotten(original, current) == current

\* v.selectedKeys = originalSelected: the selection left in the context
restoredSelection(original, current) == original

Top(stk) == stk[Len(stk)]
Pop(stk) == SubSeq(stk, 1, Len(stk) - 1)

\* validateVisibility(v, {simulate: false}): the rules run once
ValidatePlain ==
    /\ pc = "call"
    /\ ~simOpts.simulate
    /\ errors' = errors \o runVisibilityRulesOnce(props, vSelected)
    /\ ruleRuns' = Append(ruleRuns, vSelected)
    /\ pc' = "returned"
    /\ UNCHANGED <<coreVars, normVars, props, selectedKeys, visVars, simOpts, vSelected, stack, visited,
                   validatedStates, originalSelected, errorsStart, laterVisible>>

\* validateVisibility(v, {simulate: true}) up to its loop: the snapshot and
\* the seed states, one per simulated root
SimEnter ==
    /\ pc = "call"
    /\ simOpts.simulate
    /\ LET roots    == resolveRootTags(props.filters)
           rootTags == IF simOpts.simulateAllRoots THEN roots ELSE SubSeq(roots, 1, 1)
       IN  stack' = [i \in DOMAIN rootTags |->
                        [rootTagId |-> rootTags[i].id, selected |-> vSelected, depth |-> 0]]
    /\ originalSelected' = vSelected
    /\ errorsStart' = Len(errors)
    /\ visited' = {}
    /\ validatedStates' = 0
    /\ pc' = "loop"
    /\ UNCHANGED <<coreVars, normVars, props, selectedKeys, visVars, simOpts, vSelected, errors, ruleRuns,
                   laterVisible>>

\* while (stack.length): the stack is empty
SimExhausted ==
    /\ pc = "loop"
    /\ stack = <<>>
    /\ pc' = "exit"
    /\ UNCHANGED <<coreVars, normVars, props, selectedKeys, visVars, simVars>>

\* if (validatedStates >= maxStates) break
SimCapped ==
    /\ pc = "loop"
    /\ stack # <<>>
    /\ capReached(validatedStates, maxStatesOf(simOpts))
    /\ pc' = "exit"
    /\ UNCHANGED <<coreVars, normVars, props, selectedKeys, visVars, simVars>>

\* a popped state whose signature was visited
SimSkip ==
    /\ pc = "loop"
    /\ stack # <<>>
    /\ ~capReached(validatedStates, maxStatesOf(simOpts))
    /\ stableKeyOfSelection(Top(stack).selected) \in visited
    /\ stack' = Pop(stack)
    /\ UNCHANGED <<coreVars, normVars, pc, props, selectedKeys, visVars, simOpts, vSelected, errors, visited,
                   validatedStates, originalSelected, errorsStart, ruleRuns, laterVisible>>

\* a popped state that is new: validated and, below maxDepth, expanded
SimVisit ==
    /\ pc = "loop"
    /\ stack # <<>>
    /\ ~capReached(validatedStates, maxStatesOf(simOpts))
    /\ LET state == Top(stack)
           sig   == stableKeyOfSelection(state.selected)
       IN  /\ sig \notin visited
           /\ visited' = visited \cup {sig}
           /\ vSelected' = state.selected
           /\ validatedStates' = validatedStates + 1
           /\ errors' = errors \o runVisibilityRulesOnce(props, state.selected)
           /\ ruleRuns' = Append(ruleRuns, state.selected)
           /\ stack' =
                IF expandable(state.depth, maxDepthOf(simOpts))
                THEN pushNext(Pop(stack), state,
                              collectSelectableTriggersInContext(
                                  props, state.rootTagId, state.selected,
                                  simOpts.onlyEffectfulTriggers))
                ELSE Pop(stack)
    /\ UNCHANGED <<coreVars, normVars, pc, props, selectedKeys, visVars, simOpts, originalSelected,
                   errorsStart, laterVisible>>

\* after the loop: the selection restored, the simulation's findings deduped
SimReturn ==
    /\ pc = "exit"
    /\ vSelected' = restoredSelection(originalSelected, vSelected)
    /\ errors' = dedupeErrors(errors, errorsStart)
    /\ pc' = "returned"
    /\ UNCHANGED <<coreVars, normVars, props, selectedKeys, visVars, simOpts, stack, visited,
                   validatedStates, originalSelected, errorsStart, ruleRuns, laterVisible>>

\* validate(): the steps after validateVisibility read the visible fields
\* of the tags through v.fieldsVisibleUnder, that is under v.selectedKeys
LaterSteps ==
    /\ pc = "returned"
    /\ laterVisible' = [i \in DOMAIN props.filters |->
                           visibleFieldIdsUnder(props, props.filters[i].id, vSelected)]
    /\ pc' = "done"
    /\ UNCHANGED <<coreVars, normVars, props, selectedKeys, visVars, simOpts, vSelected, errors, stack,
                   visited, validatedStates, originalSelected, errorsStart, ruleRuns>>

(***************************************************************************)
(* core/validate/steps/option-maps.ts                                      *)
(***************************************************************************)
\* String.prototype.trim on a key segment
trimSegment(s) ==
    CASE s = " " -> ""
      [] s = " f1 " -> "f1"
      [] s = " o1 " -> "o1"
      [] OTHER -> s

NoParse == [fieldId |-> "", optionId |-> <<>>]

\* parseFieldOptionKey: the key is cut at its first "::", so the option id
\* is the sequence of the segments after it (one segment unless the key
\* holds "::" twice); null when either part is empty after the trim
parseFieldOptionKey(key) ==
    IF Len(key) < 2 THEN NoParse
    ELSE IF trimSegment(key[1]) = "" THEN NoParse
    ELSE IF Len(key) = 2 /\ trimSegment(key[2]) = "" THEN NoParse
    ELSE [fieldId |-> trimSegment(key[1]),
          optionId |-> IF Len(key) = 2 THEN <<trimSegment(key[2])>> ELSE Tail(key)]

\* v.fieldById.get(fid), then a search of its options
hasOption(p, fid, oid) ==
    /\ IndexById(p.fields, fid) # 0
    /\ Len(oid) = 1
    /\ \E j \in DOMAIN p.fields[IndexById(p.fields, fid)].options :
          p.fields[IndexById(p.fields, fid)].options[j].id = oid[1]

KeyVerdict(ok, nodeId, affected) == [ok |-> ok, nodeId |-> nodeId, affected |-> affected]

verdictOfParsed(p, parsed) ==
    IF parsed = NoParse THEN KeyVerdict(FALSE, "", <<>>)
    ELSE KeyVerdict(hasOption(p, parsed.fieldId, parsed.optionId), parsed.fieldId,
                    <<parsed.fieldId, parsed.optionId>>)

\* a field key accepted whether or not the field is a button
verdictOfRef_AnyField(p, ref) ==
    IF ref.kind = "option" THEN KeyVerdict(TRUE, ref.fieldId, <<ref.fieldId, ref.id>>)
    ELSE IF ref.kind = "field" THEN KeyVerdict(TRUE, ref.id, <<ref.id>>)
    ELSE KeyVerdict(FALSE, ref.id, <<ref.id>>)

verdictOfRef(p, ref) ==
    IF ref.kind = "option" THEN KeyVerdict(TRUE, ref.fieldId, <<ref.fieldId, ref.id>>)
    ELSE IF ref.kind = "field"
    THEN KeyVerdict(p.fields[ref.node[1]].button = TRUE, ref.id, <<ref.id>>)
    ELSE KeyVerdict(FALSE, ref.id, <<ref.id>>)

\* a key holding "::" is the id of no node of the documents
validateTriggerKey(p, nodes, key) ==
    IF Len(key) = 1 /\ key[1] \in DOMAIN nodes
    THEN verdictOfRef(p, nodes[key[1]])
    ELSE verdictOfParsed(p, parseFieldOptionKey(key))

\* withAffected: affectedIds only when there are two ids or more
withAffected(ids) == IF Len(ids) <= 1 THEN <<>> ELSE ids

KeyFinding(code, key, r) ==
    [code |-> code, nodeId |-> r.nodeId, tagId |-> "", other |-> "",
     message |-> <<code, key>>, ids |-> withAffected(r.affected)]

\* Object.keys of the trigger maps of the documents, in insertion order
MapKeyOrder ==
    <<<<"o1">>, <<"o2">>, <<"f1">>, <<"f2">>, <<"t1">>, <<"zz">>,
      <<"f1", "o1">>, <<"f1", "o2">>, <<" f1 ", " o1 ">>, <<"f1", " ">>,
      <<"f1", "o1", "x">>, <<"f2", "o2">>, <<"f3">>>>

keysOf(map) == SelectSeq(MapKeyOrder, LAMBDA k : k \in DOMAIN map)

badOptionKeys(p, nodes, keys) ==
    LET bad == SelectSeq(keys, LAMBDA k : ~validateTriggerKey(p, nodes, k).ok)
    IN  [n \in DOMAIN bad |->
            KeyFinding("bad_option_key", bad[n], validateTriggerKey(p, nodes, bad[n]))]

includeExcludeConflicts(p, nodes, keys) ==
    LET both == SelectSeq(keys, LAMBDA k : k \in DOMAIN p.excludes_for_buttons)
    IN  [n \in DOMAIN both |->
            KeyFinding("option_include_exclude_conflict", both[n],
                       validateTriggerKey(p, nodes, both[n]))]

validateOptionMaps(p, nodes) ==
    badOptionKeys(p, nodes, keysOf(p.includes_for_buttons))
    \o badOptionKeys(p, nodes, keysOf(p.excludes_for_buttons))
    \o includeExcludeConflicts(p, nodes, keysOf(p.includes_for_buttons))

(***************************************************************************)
(* The documents of the simulation checks: two root tags (root, R2) and a  *)
(* child A of root; f1 and f2 carry an option, f3 is a button, and the     *)
(* target shares f1's label and f3's quantity marker, so that the rules    *)
(* have findings to report in some selections.                             *)
(***************************************************************************)
Marked(f) == [f EXCEPT !.quantity = TRUE]

KeyF1O1 == <<"f1", "o1">>

SimMaps ==
    { [inc |-> (KeyF1O1 :> <<"f3">>) @@ (KeyF3 :> <<"tgt">>),
       exc |-> (KeyF2O2 :> <<"tgt">>)],
      [inc |-> (KeyF2O2 :> <<"tgt">>),
       exc |-> (KeyF1O1 :> <<"f2">>)],
      [inc |-> EmptyMap, exc |-> EmptyMap],
      [inc |-> (KeyO1 :> <<"tgt">>),
       exc |-> (KeyF3 :> <<"f1">>)],
      [inc |-> (KeyF1O1 :> <<"f3">>) @@ (<<"zz">> :> <<"tgt">>),
       exc |-> (KeyF2O2 :> <<"tgt">>) @@ (<<"zz">> :> <<"f1">>)] }

SimDocs ==
    { Doc(<<Tag("root", "", <<>>, <<>>),
            Tag("A", "root", <<>>, <<>>),
            Tag("R2", "", <<>>, <<>>)>>,
          <<Field("f1", <<"root">>, FALSE, <<Option("o1", "utility")>>, "One"),
            Field("f2", b2, FALSE, <<Option("o2", "base")>>, "Two"),
            Marked(Field("f3", b3, TRUE, <<>>, " ")),
            Marked(Field("tgt", bt, FALSE, <<>>, "One"))>>,
          m.inc, m.exc) :
        b2 \in {<<"root">>, <<"A">>, <<"R2">>},
        b3 \in {<<"root">>, <<>>},
        bt \in {<<"root">>, <<>>},
        m \in SimMaps }

\* the largest maxStates and maxDepth the caller passes
MaxStatesOpt == 3
MaxDepthOpt == 2

SimOptions ==
    {NoOptions} \cup
    [simulate : {TRUE},
     maxStates : {<<>>} \cup {<<n>> : n \in 0..MaxStatesOpt},
     maxDepth : {<<>>} \cup {<<n>> : n \in (-1)..MaxDepthOpt},
     simulateAllRoots : BOOLEAN,
     onlyEffectfulTriggers : BOOLEAN]

\* the caller's selections (ctx.selectedOptionKeys)
SimSeeds == {<<>>, <<KeyF3>>, <<KeyO1>>}

\* validate() up to its call of validateVisibility: v.selectedKeys is a new
\* Set of the caller's keys and v.errors holds the findings of the option-map
\* step
InitSim ==
    /\ pc = "call"
    /\ props \in SimDocs
    /\ selectedKeys \in SimSeeds
    /\ VisIdle
    /\ simOpts \in SimOptions
    /\ vSelected = selectedKeys
    /\ errors = validateOptionMaps(props, buildNodeMap(props))
    /\ stack = <<>>
    /\ visited = {}
    /\ validatedStates = 0
    /\ originalSelected = <<>>
    /\ errorsStart = 0
    /\ ruleRuns = <<>>
    /\ laterVisible = EmptyMap
    /\ NormIdle
    /\ CoreIdle

NextSim ==
    \/ ValidatePlain
    \/ SimEnter
    \/ SimExhausted
    \/ SimCapped
    \/ SimSkip
    \/ SimVisit
    \/ SimReturn
    \/ LaterSteps

SpecSim == InitSim /\ [][NextSim]_vars

\* the keys a simulated selection holds beyond the caller's seed
Added(selected) == SeqToSet(selected) \ SeqToSet(selectedKeys)

\* C1 (as stated): the rules are run on at most maxStates selections, and
\* no validated selection holds more than maxDepth keys beyond the seed.
C1_AsStated ==
    simOpts.simulate =>
        /\ simOpts.maxStates # <<>> => Len(ruleRuns) <= simOpts.maxStates[1]
        /\ simOpts.maxDepth # <<>> =>
              \A i \in DOMAIN ruleRuns :
                  Cardinality(Added(ruleRuns[i])) <= simOpts.maxDepth[1]

GivenOr(opt, default) == IF opt = <<>> THEN default ELSE opt[1]

\* C1 (amended): the rules are run on at most max(1, maxStates) selections,
\* and no validated selection holds more than max(0, maxDepth) keys beyond
\* the seed (500 and 6 standing for a limit that is not given).
C1_SimulationBounded ==
    simOpts.simulate =>
        /\ \/ Len(ruleRuns) <= 1
           \/ Len(ruleRuns) <= GivenOr(simOpts.maxStates, DefaultMaxStates)
        /\ \A i \in DOMAIN ruleRuns :
              \/ Added(ruleRuns[i]) = {}
              \/ Cardinality(Added(ruleRuns[i])) <= GivenOr(simOpts.maxDepth, DefaultMaxDepth)
        /\ \A i \in DOMAIN ruleRuns : SeqToSet(selectedKeys) \subseteq SeqToSet(ruleRuns[i])

\* a simulation stopped by maxStates = 2 with states left on the stack,
\* whose second validated selection holds maxDepth = 1 added key
C1_Witness ==
    /\ pc = "returned"
    /\ simOpts.simulate
    /\ simOpts.maxStates = <<2>> /\ simOpts.maxDepth = <<1>>
    /\ Len(ruleRuns) = 2
    /\ stack # <<>>
    /\ Cardinality(Added(ruleRuns[2])) = 1

VisibleUnderCaller ==
    [i \in DOMAIN props.filters |->
        visibleFieldIdsUnder(props, props.filters[i].id, selectedKeys)]

\* C2: once validateVisibility has returned, by whichever exit, the context's
\* selection is the caller's, and the steps that follow see the visible
\* fields of the caller's selection.
C2_SelectionRestored ==
    /\ pc \in {"returned", "done"} => vSelected = selectedKeys
    /\ pc = "done" => laterVisible = VisibleUnderCaller

\* a simulation from a non-empty caller selection, stopped by the cap with
\* states left on the stack, whose last simulated selection shows other
\* fields than the caller's; the later steps have run
C2_Witness ==
    /\ pc = "done"
    /\ simOpts.simulate
    /\ selectedKeys # <<>>
    /\ stack # <<>>
    /\ capReached(validatedStates, maxStatesOf(simOpts))
    /\ ruleRuns[Len(ruleRuns)] # selectedKeys
    /\ laterVisible # [i \in DOMAIN props.filters |->
                          visibleFieldIdsUnder(props, props.filters[i].id,
                                               ruleRuns[Len(ruleRuns)])]

(***************************************************************************)
(* core/normalise.ts                                                       *)
(*                                                                         *)
(* A payload is a record holding every key normalise reads; a key the      *)
(* payload lacks is <<>> where its value is an array or an object (so a    *)
(* present value v is <<v>>), and "" where it is a string.  A tag and a    *)
(* field are records in the same way.  A boolean-like value is one of the  *)
(* tokens "true", "false", "1", "0" (the literals true, false, 1, 0).      *)
(* The display props of tags, fields and options (label, placeholder,      *)
(* meta, ...) and service ids are carried through by the code and are      *)
(* left out.                                                               *)
(***************************************************************************)
FLAG_KEYS == <<"refill", "cancel", "dripfeed">>

\* str(v): the string when it is not blank, else undefined
str(v) == IF trim(v) = "" THEN "" ELSE v

\* bool(v) = !!v on a value that is not undefined
bool(v) == IF v \in {"false", "0"} THEN "false" ELSE "true"

\* toStringArray(v) on an array of strings: the blank ones dropped
toStringArray(v) == SelectSeq(v, LAMBDA x : trim(x) # "")

\* a ?? b on optional values
Coalesce(a, b) == IF a # <<>> THEN a ELSE b

Indices(arr) == [i \in DOMAIN arr |-> i]

\* coerceTag: snake_case bind_id, deduped lists, the three flags coerced to
\* booleans; constraints_origin and constraints_overrides are not copied
coerceTag(src) ==
    [id |-> str(src.id),
     label |-> str(src.label),
     bind_id |-> IF str(src.bind_id) # "" THEN str(src.bind_id) ELSE str(src.bindId),
     bindId |-> "",
     includes |-> dedupe(toStringArray(src.includes)),
     excludes |-> dedupe(toStringArray(src.excludes)),
     constraints |-> [k \in DOMAIN src.constraints \cap SeqToSet(FLAG_KEYS) |->
                         bool(src.constraints[k])],
     constraints_origin |-> EmptyMap,
     constraints_overrides |-> EmptyMap]

\* a bind value: undefined, a string, or an array of strings
JsUndefined == [kind |-> "undefined", str |-> "", items |-> <<>>]
JsString(v) == [kind |-> "string", str |-> v, items |-> <<>>]
JsStrings(arr) == [kind |-> "array", str |-> "", items |-> arr]

singleOrMany(arr) ==
    IF arr = <<>> THEN JsUndefined
    ELSE IF Len(arr) = 1 THEN JsString(arr[1])
    ELSE JsStrings(arr)

normaliseBindId(bind) ==
    IF bind.kind = "string" /\ trim(bind.str) # "" THEN JsString(bind.str)
    ELSE IF bind.kind = "array" THEN singleOrMany(dedupe(toStringArray(bind.items)))
    ELSE JsUndefined

pricingRole(role, default) == IF role \in {"utility", "base"} THEN role ELSE default

coerceOption(src, inheritRole) ==
    [id |-> str(src.id), pricing_role |-> pricingRole(src.pricing_role, inheritRole)]

coerceOptions(options, role) ==
    [j \in DOMAIN options |-> coerceOption(options[j], role)]

coerceField(src, defRole) ==
    [id |-> str(src.id),
     bind_id |-> normaliseBindId(IF src.bind_id.kind # "undefined" THEN src.bind_id
                                 ELSE src.bind),
     bind |-> JsUndefined,
     pricing_role |-> pricingRole(src.pricing_role, defRole),
     options |-> coerceOptions(src.options, pricingRole(src.pricing_role, defRole))]

\* filters ?? tags ?? []
legacyFilters(x) == Coalesce(Coalesce(x.filters, x.tags), <<<<>>>>)[1]

coerceTags(tags) == [i \in DOMAIN tags |-> coerceTag(tags[i])]

RootTag ==
    [id |-> "root", label |-> "Root", bind_id |-> "", bindId |-> "",
     includes |-> <<>>, excludes |-> <<>>,
     constraints |-> EmptyMap, constraints_origin |-> EmptyMap,
     constraints_overrides |-> EmptyMap]

\* 3) a root tag is injected in front when no tag is called root
ensureRoot(tags) ==
    IF \E i \in DOMAIN tags : tags[i].id = "root" THEN tags ELSE <<RootTag>> \o tags

\* the root's lists after the migration: excludes win over includes
withRootLists(t, includes, excludes) ==
    [t EXCEPT !.includes = SelectSeq(includes, LAMBDA x : ~Contains(excludes, x)),
              !.excludes = excludes]

\* 4) legacy rootIncludes / rootExcludes are merged into the root tag
migrateRoot(tags, rootIncludes, rootExcludes) ==
    IF rootIncludes = <<>> /\ rootExcludes = <<>> THEN tags
    ELSE [i \in DOMAIN tags |->
            IF tags[i].id # "root" THEN tags[i]
            ELSE withRootLists(tags[i], dedupe(tags[i].includes \o rootIncludes),
                               dedupe(tags[i].excludes \o rootExcludes))]

\* the tags normalise hands to propagateConstraints
coercedTags(x) ==
    migrateRoot(ensureRoot(coerceTags(legacyFilters(x))), x.rootIncludes, x.rootExcludes)

\* the keys toStringArrayMap keeps: not empty, and listing a non-blank id
keptKeys(m) == {k \in DOMAIN m : k # <<"">> /\ toStringArray(m[k]) # <<>>}

toStringArrayMap(src) ==
    IF src = <<>> THEN <<>>
    ELSE IF keptKeys(src[1]) = {} THEN <<>>
    ELSE <<[k \in keptKeys(src[1]) |-> dedupe(toStringArray(src[1][k]))]>>

(***************************************************************************)
(* propagateConstraints                                                    *)
(***************************************************************************)
\* children.get(id): the tags naming id as their parent, in document order
childrenOf(tags, id) ==
    SelectSeq(Indices(tags), LAMBDA i : id # "" /\ tags[i].bind_id = id)

\* the tags without a parent, or whose parent is no tag of the document
rootsOf(tags) ==
    SelectSeq(Indices(tags), LAMBDA i :
        \/ tags[i].bind_id = ""
        \/ \A j \in DOMAIN tags : tags[j].id # tags[i].bind_id)

startsOf(tags) == IF rootsOf(tags) # <<>> THEN rootsOf(tags) ELSE Indices(tags)

\* mutant: the tag's own value wins over the inherited one
nextOf_LocalWins(local, inherited, k) ==
    IF k \in DOMAIN local THEN local[k] ELSE inherited[k].val

\* next[k]: the inherited value when there is one, else the local value
nextOf(local, inherited, k) ==
    IF k \in DOMAIN inherited THEN inherited[k].val ELSE local[k]

\* mutant: a local value equal to the inherited one keeps the ancestor's origin
originOf_Inherited(tagId, local, inherited, k) ==
    IF k \in DOMAIN inherited THEN inherited[k].origin ELSE tagId

\* origin[k]
originOf(tagId, local, inherited, k) ==
    IF k \in DOMAIN inherited
    THEN IF k \notin DOMAIN local THEN inherited[k].origin
         ELSE IF local[k] = inherited[k].val THEN tagId
         ELSE inherited[k].origin
    ELSE tagId

\* overrides[k]
overrideOf(local, inherited, k) ==
    [from |-> local[k], to |-> inherited[k].val, origin |-> inherited[k].origin]

\* the flags that get a value: inherited or local
definedFlags(local, inherited) ==
    {k \in SeqToSet(FLAG_KEYS) : k \in DOMAIN inherited \/ k \in DOMAIN local}

\* the flags whose local value contradicts the inherited one
overriddenFlags(local, inherited) ==
    {k \in SeqToSet(FLAG_KEYS) :
        k \in DOMAIN inherited /\ k \in DOMAIN local /\ local[k] # inherited[k].val}

\* what visit writes back on the tag
persisted(tag, local, inherited) ==
    [tag EXCEPT
        !.constraints = [k \in definedFlags(local, inherited) |->
                            nextOf(local, inherited, k)],
        !.constraints_origin = [k \in definedFlags(local, inherited) |->
                                   originOf(tag.id, local, inherited, k)],
        !.constraints_overrides = [k \in overriddenFlags(local, inherited) |->
                                      overrideOf(local, inherited, k)]]

\* mutant: an overridden tag hands its raw local value down
passDown_RawLocal(inherited, tag) ==
    [k \in DOMAIN inherited \cup DOMAIN tag.constraints |->
        IF k \in DOMAIN tag.constraints_overrides
        THEN [val |-> tag.constraints_overrides[k].from, origin |-> tag.id]
        ELSE IF k \in DOMAIN tag.constraints
        THEN [val |-> tag.constraints[k], origin |-> tag.constraints_origin[k]]
        ELSE inherited[k]]

\* passDown: the effective values and origins of the visited tag over the
\* inherited ones
passDown(inherited, tag) ==
    [k \in DOMAIN inherited \cup DOMAIN tag.constraints |->
        IF k \in DOMAIN tag.constraints
        THEN [val |-> tag.constraints[k], origin |-> tag.constraints_origin[k]]
        ELSE inherited[k]]

RECURSIVE visit(_, _, _)
RECURSIVE visitEach(_, _, _)

\* the visit of a tag not seen before: written back, then its children
visitNew(st, i, inherited, tag) ==
    visitEach([tags |-> [st.tags EXCEPT ![i] = tag], visited |-> Append(st.visited, tag.id)],
              childrenOf(st.tags, tag.id), passDown(inherited, tag))

visit(st, i, inherited) ==
    IF Contains(st.visited, st.tags[i].id) THEN st
    ELSE visitNew(st, i, inherited,
                  persisted(st.tags[i], st.tags[i].constraints, inherited))

visitEach(st, idxs, inherited) ==
    IF idxs = <<>> THEN st
    ELSE visitEach(visit(st, Head(idxs), inherited), Tail(idxs), inherited)

\* the walk from the starts: the tags as written back, and the ids of the
\* visited set in the order they were added
propagation(tags) ==
    visitEach([tags |-> tags, visited |-> <<>>], startsOf(tags), EmptyMap)

propagateConstraints(tags) ==
    IF tags = <<>> THEN tags
    ELSE propagation(tags).tags

(***************************************************************************)
(* coerceFallbacks: a value is an array of service ids or an object        *)
(***************************************************************************)
JsArray(items) == [isArray |-> TRUE, items |-> items, entries |-> EmptyMap]
JsObject(entries) == [isArray |-> FALSE, items |-> <<>>, entries |-> entries]

toServiceIdArray(v) == IF v.isArray THEN SelectSeq(v.items, LAMBDA x : x # "") ELSE <<>>

\* the references listed under a key, without the key itself, deduped
cleanRefs(key, v) == dedupe(SelectSeq(toServiceIdArray(v), LAMBDA x : x # key))

cleanEntries(obj, keys) ==
    [k \in {j \in keys : cleanRefs(j, obj[j]) # <<>>} |-> JsArray(cleanRefs(k, obj[k]))]

\* rg: the entries of src.global when it is an object (the entries of an
\* array are not arrays and yield nothing)
globalOf(src) ==
    IF "global" \notin DOMAIN src THEN EmptyMap
    ELSE IF src["global"].isArray THEN EmptyMap
    ELSE cleanEntries(src["global"].entries, DOMAIN src["global"].entries)

\* rn: every key of src but "global" is taken for a node id
nodesOf(src) == cleanEntries(src, DOMAIN src \ {"global"})

fallbacksOf(rn, rg) ==
    [k \in {j \in {"nodes"} : rn # EmptyMap} \cup {j \in {"global"} : rg # EmptyMap} |->
        JsObject(IF k = "nodes" THEN rn ELSE rg)]

coerceFallbacks(src) == fallbacksOf(nodesOf(src), globalOf(src))

\* 6) the canonical payload around the propagated tags
canonical(x, defRole, tags) ==
    [filters |-> <<tags>>,
     tags |-> <<>>,
     fields |-> [i \in DOMAIN x.fields |-> coerceField(x.fields[i], defRole)],
     rootIncludes |-> <<>>,
     rootExcludes |-> <<>>,
     includes_for_options |->
        toStringArrayMap(Coalesce(x.includes_for_options, x.includesForOptions)),
     includesForOptions |-> <<>>,
     excludes_for_options |->
        toStringArrayMap(Coalesce(x.excludes_for_options, x.excludeForOptions)),
     excludeForOptions |-> <<>>,
     fallbacks |-> coerceFallbacks(x.fallbacks),
     schema_version |-> Coalesce(x.schema_version, <<"1.0">>)]

normalise(x, defRole) == canonical(x, defRole, propagateConstraints(coercedTags(x)))

(***************************************************************************)
(* The payloads of the normalise checks                                    *)
(***************************************************************************)
EmptyPayload ==
    [filters |-> <<>>, tags |-> <<>>, fields |-> <<>>,
     rootIncludes |-> <<>>, rootExcludes |-> <<>>,
     includes_for_options |-> <<>>, includesForOptions |-> <<>>,
     excludes_for_options |-> <<>>, excludeForOptions |-> <<>>,
     fallbacks |-> EmptyMap, schema_version |-> <<>>]

LegacyTag(id, bind_id, bindId, includes, constraints) ==
    [id |-> id, label |-> "Tag", bind_id |-> bind_id, bindId |-> bindId,
     includes |-> includes,
     excludes |-> <<>>, constraints |-> constraints,
     constraints_origin |-> EmptyMap, constraints_overrides |-> EmptyMap]

PlainTag(id, bind_id, constraints) == LegacyTag(id, bind_id, "", <<>>, constraints)

\* a flag left out, or given one of the values
FlagChoices(k, values) == {EmptyMap} \cup {k :> v : v \in values}

RootParts ==
    {<<>>} \cup
    {<<PlainTag("root", br, cr)>> :
        br \in {"", "C"}, cr \in FlagChoices("refill", {"true", "false"})}

\* the tag forests: root <- A <- B <- C, with A possibly on a cycle with B or
\* under a missing parent, the root possibly missing or closing a cycle, and
\* the last tag possibly under the root and possibly reusing the id of A
TreePayloads ==
    {[EmptyPayload EXCEPT !.filters =
        <<rootPart \o <<PlainTag("A", ba, ca), PlainTag("B", "A", cb @@ cb2),
                        PlainTag(idc, bc, cc)>>>>] :
        rootPart \in RootParts,
        ba \in {"root", "B", "zz"},
        ca \in FlagChoices("refill", {"true", "false", "1"}),
        cb \in FlagChoices("refill", {"true", "false"}),
        cb2 \in FlagChoices("cancel", {"false"}),
        idc \in {"C", "A"},
        bc \in {"B", "root"},
        cc \in FlagChoices("refill", {"true", "false"})}

LegacyField(id, bind_id, bind, role, options) ==
    [id |-> id, bind_id |-> bind_id, bind |-> bind, pricing_role |-> role,
     options |-> options]

FieldLists ==
    {<<>>,
     <<LegacyField("f1", JsUndefined, JsStrings(<<"A", "A", " ">>), "utility",
                   <<[id |-> "o1", pricing_role |-> ""]>>),
       LegacyField("f2", JsStrings(<<"A", "root">>), JsString("B"), "",
                   <<[id |-> "o2", pricing_role |-> "utility"]>>)>>}

LegacyTagLists ==
    {<<LegacyTag("root", "", "", ri, rc),
       LegacyTag("A", " ", "root", <<>>, EmptyMap)>> :
        ri \in {<<>>, <<"f2", "f2", " ">>},
        rc \in {EmptyMap, "dripfeed" :> "0"}}

OptionMaps ==
    {<<>>, <<EmptyMap>>,
     <<(KeyO1 :> <<"f1", "f1", " ">>) @@ (<<"">> :> <<"f2">>) @@ (KeyF3 :> <<" ">>)>>}

LegacyFallbacks ==
    {EmptyMap,
     ("n1" :> JsArray(<<"1", "2", "2", "">>)) @@ ("n2" :> JsArray(<<"n2">>)),
     ("global" :> JsObject(("1" :> JsArray(<<"1", "3">>)))),
     ("n1" :> JsArray(<<"1">>)) @@ ("global" :> JsObject(("1" :> JsArray(<<"2">>)))),
     ("global" :> JsArray(<<"1", "2">>))}

\* the payloads in legacy shapes: aliases, root lists, option maps, fallbacks
LegacyPayloads ==
    {[EmptyPayload EXCEPT
        !.filters = IF alias THEN <<>> ELSE <<tags>>,
        !.tags = IF alias THEN <<tags>> ELSE <<>>,
        !.fields = fields,
        !.rootIncludes = rootInc,
        !.rootExcludes = rootExc,
        !.includesForOptions = inc,
        !.excludes_for_options = exc,
        !.fallbacks = fb,
        !.schema_version = version] :
        alias \in BOOLEAN, tags \in LegacyTagLists, fields \in FieldLists,
        rootInc \in {<<>>, <<"f1", "f2">>}, rootExc \in {<<>>, <<"f1">>},
        inc \in OptionMaps, exc \in {<<>>, <<(KeyO1 :> <<"f1">>)>>},
        fb \in LegacyFallbacks, version \in {<<>>, <<"2.0">>}}

NoDoc == Doc(<<>>, <<>>, EmptyMap, EmptyMap)

InitNorm ==
    /\ pc = "raw"
    /\ props = NoDoc
    /\ selectedKeys = <<>>
    /\ VisIdle
    /\ SimIdle
    /\ normIn \in TreePayloads \cup LegacyPayloads
    /\ normOut = <<>>
    /\ normAgain = <<>>
    /\ CoreIdle

\* normalise(input)
Normalise ==
    /\ pc = "raw"
    /\ normOut' = normalise(normIn, "base")
    /\ pc' = "normalised"
    /\ UNCHANGED <<coreVars, props, selectedKeys, visVars, simVars, normIn, normAgain>>

\* normalise(normalise(input))
NormaliseAgain ==
    /\ pc = "normalised"
    /\ normAgain' = normalise(normOut, "base")
    /\ pc' = "renormalised"
    /\ UNCHANGED <<coreVars, props, selectedKeys, visVars, simVars, normIn, normOut>>

NextNorm == Normalise \/ NormaliseAgain

SpecNorm == InitNorm /\ [][NextNorm]_vars

(***************************************************************************)
(* Claims about normalise and the constraint propagation                   *)
(***************************************************************************)
\* C7 (as stated): normalise applied to normalise(x) yields a document
\* identical to normalise(x), tag constraints, origins, overrides, trigger
\* maps and fallbacks included.
C7_AsStated == pc = "renormalised" => normAgain = normOut

\* the tags as declared (coerced, before the propagation) and as propagated
DeclaredTags == coercedTags(normIn)
PropagatedTags == normOut.filters[1]

UniqueIds(tags) == \A i, j \in DOMAIN tags : tags[i].id = tags[j].id => i = j

\* the parent of tag i as an index, 0 for a tag without a parent in the document
ParentOf(tags, i) ==
    IF tags[i].bind_id = "" THEN 0 ELSE IndexById(tags, tags[i].bind_id)

\* tag i, its parent, ... up to a parentless tag; <<>> when the walk meets a cycle
RECURSIVE Up(_, _, _)
Up(tags, i, acc) ==
    IF Contains(acc, i) THEN <<>>
    ELSE IF ParentOf(tags, i) = 0 THEN Append(acc, i)
    ELSE Up(tags, ParentOf(tags, i), Append(acc, i))

Ancestry(tags, i) == Up(tags, i, <<>>)

Rooted(tags, i) == Ancestry(tags, i) # <<>>

\* the tags on the ancestry of tag i that declare flag k, nearest first
Setters(i, k) ==
    SelectSeq(Ancestry(DeclaredTags, i), LAMBDA j : k \in DOMAIN DeclaredTags[j].constraints)

Propagated == pc = "normalised" /\ UniqueIds(DeclaredTags)

Flags == SeqToSet(FLAG_KEYS)

\* C8 (as stated): after propagation the effective value of every flag on
\* every tag is the value declared by the nearest ancestor, the tag itself
\* counted, that declares the flag.
C8_AsStated ==
    Propagated =>
        \A i \in DOMAIN DeclaredTags : \A k \in Flags :
            (Rooted(DeclaredTags, i) /\ Setters(i, k) # <<>>) =>
                /\ k \in DOMAIN PropagatedTags[i].constraints
                /\ PropagatedTags[i].constraints[k]
                     = DeclaredTags[Setters(i, k)[1]].constraints[k]

\* C8 (amended): in a document of unique tag ids, for every tag whose chain of
\* parents ends at a parentless tag, the effective value of a flag is the value
\* declared by the farthest ancestor, the tag itself counted, that declares
\* the flag; the flag has no effective value when none declares it.
C8_FarthestSetterWins ==
    Propagated =>
        \A i \in DOMAIN DeclaredTags : \A k \in Flags :
            Rooted(DeclaredTags, i) =>
                IF Setters(i, k) = <<>>
                THEN k \notin DOMAIN PropagatedTags[i].constraints
                ELSE /\ k \in DOMAIN PropagatedTags[i].constraints
                     /\ PropagatedTags[i].constraints[k]
                          = DeclaredTags[Setters(i, k)[Len(Setters(i, k))]].constraints[k]

\* a tag under the root whose nearest and farthest declaring ancestors
\* declare different values, and a tag that no ancestor gives a value
C8_Witness ==
    /\ Propagated
    /\ \E i \in DOMAIN DeclaredTags :
          /\ Rooted(DeclaredTags, i)
          /\ Len(Setters(i, "refill")) >= 2
          /\ DeclaredTags[Setters(i, "refill")[1]].constraints["refill"]
               # DeclaredTags[Setters(i, "refill")[Len(Setters(i, "refill"))]].constraints["refill"]
          /\ Setters(i, "cancel") = <<>>

\* tag i declares flag k, and its parent hands a value of k down to it
Inherits(i, k) ==
    /\ Rooted(DeclaredTags, i)
    /\ ParentOf(DeclaredTags, i) # 0
    /\ k \in DOMAIN DeclaredTags[i].constraints
    /\ k \in DOMAIN PropagatedTags[ParentOf(DeclaredTags, i)].constraints

InheritedValue(i, k) == PropagatedTags[ParentOf(DeclaredTags, i)].constraints[k]
InheritedOrigin(i, k) == PropagatedTags[ParentOf(DeclaredTags, i)].constraints_origin[k]

Overridden(i, k) ==
    Inherits(i, k) /\ DeclaredTags[i].constraints[k] # InheritedValue(i, k)

ChildrenOfTag(i) == {c \in DOMAIN DeclaredTags : ParentOf(DeclaredTags, c) = i}

\* C9: a tag whose declared flag value differs from the one inherited from
\* its parent gets the inherited value and origin and the override record
\* {from: local, to: inherited, origin: inherited origin}; its children
\* inherit that effective value and origin, not the tag's declared value.
C9_AncestorOverrides ==
    Propagated =>
        \A i \in DOMAIN DeclaredTags : \A k \in Flags :
            Overridden(i, k) =>
                /\ PropagatedTags[i].constraints[k] = InheritedValue(i, k)
                /\ PropagatedTags[i].constraints_origin[k] = InheritedOrigin(i, k)
                /\ k \in DOMAIN PropagatedTags[i].constraints_overrides
                /\ PropagatedTags[i].constraints_overrides[k]
                     = [from |-> DeclaredTags[i].constraints[k],
                        to |-> InheritedValue(i, k),
                        origin |-> InheritedOrigin(i, k)]
                /\ \A c \in ChildrenOfTag(i) :
                      /\ k \in DOMAIN PropagatedTags[c].constraints
                      /\ PropagatedTags[c].constraints[k] = PropagatedTags[i].constraints[k]
                      /\ k \notin DOMAIN DeclaredTags[c].constraints =>
                            PropagatedTags[c].constraints_origin[k]
                              = PropagatedTags[i].constraints_origin[k]
                      /\ (/\ k \in DOMAIN DeclaredTags[c].constraints
                          /\ DeclaredTags[c].constraints[k] # PropagatedTags[i].constraints[k]) =>
                            /\ k \in DOMAIN PropagatedTags[c].constraints_overrides
                            /\ PropagatedTags[c].constraints_overrides[k].to
                                 = PropagatedTags[i].constraints[k]
                            /\ PropagatedTags[c].constraints_overrides[k].origin
                                 = PropagatedTags[i].constraints_origin[k]

\* three generations: an overridden tag with a child that declares the same
\* value as the overridden tag, and a child that declares nothing
C9_Witness ==
    /\ Propagated
    /\ \E i \in DOMAIN DeclaredTags :
          /\ Overridden(i, "refill")
          /\ \E c \in ChildrenOfTag(i) :
                /\ "refill" \in DOMAIN DeclaredTags[c].constraints
                /\ DeclaredTags[c].constraints["refill"]
                     = DeclaredTags[i].constraints["refill"]
    /\ \E i \in DOMAIN DeclaredTags :
          /\ Overridden(i, "refill")
          /\ \E c \in ChildrenOfTag(i) : "refill" \notin DOMAIN DeclaredTags[c].constraints

C11_AsStated ==
    Propagated =>
        \A i \in DOMAIN DeclaredTags : \A k \in Flags :
            (/\ Inherits(i, k)
             /\ k \in DOMAIN DeclaredTags[ParentOf(DeclaredTags, i)].constraints
             /\ DeclaredTags[i].constraints[k] =
                    DeclaredTags[ParentOf(DeclaredTags, i)].constraints[k]
             /\ InheritedOrigin(i, k) = DeclaredTags[ParentOf(DeclaredTags, i)].id)
                => PropagatedTags[i].constraints_origin[k] =
                       DeclaredTags[ParentOf(DeclaredTags, i)].id

(***************************************************************************)
(* validate(): the node map and the option-map step.  The documents hold   *)
(* two tags, two fields with one option each, ids that may repeat across   *)
(* tags, fields and options, and one key in each trigger map.              *)
(***************************************************************************)
MapKeys == SeqToSet(MapKeyOrder)

KeyChoices == {{}} \cup {{k} : k \in MapKeys}

MapDocs ==
    { Doc(<<Tag("t1", "", <<>>, <<>>), Tag(t2, "t1", <<>>, <<>>)>>,
          <<Field(f1, <<"t1">>, b1, <<Option(o1, "base")>>, "One"),
            Field(f2, <<"t1">>, TRUE, <<Option(o2, "base")>>, "Two")>>,
          MapOf(ki, <<"f2">>), MapOf(ke, <<"f1">>)) :
        t2 \in {"t2", "t1"}, f1 \in {"f1", "t1"}, o1 \in {"o1", "f2", "t1"},
        f2 \in {"f2", "f1"}, o2 \in {"o2", "o1", "f2"}, b1 \in BOOLEAN,
        ki \in KeyChoices, ke \in KeyChoices }

InitMaps ==
    /\ pc = "plain"
    /\ props \in MapDocs
    /\ selectedKeys = <<>>
    /\ VisIdle
    /\ SimIdle
    /\ NormIdle
    /\ CoreIdle

\* validate(): v.nodeMap = ctx.nodeMap ?? buildNodeMap(props)
BuildContext ==
    /\ pc = "plain"
    /\ vNodeMap' = buildNodeMap(props)
    /\ pc' = "built"
    /\ UNCHANGED <<props, selectedKeys, visVars, simVars, normVars, fbVars, uiVars>>

\* validate(): step 3, validateOptionMaps(v)
ValidateOptionMaps ==
    /\ pc = "built"
    /\ errors' = errors \o validateOptionMaps(props, vNodeMap)
    /\ pc' = "checked"
    /\ UNCHANGED <<props, selectedKeys, visVars, normVars, coreVars, simOpts, vSelected,
                   stack, visited, validatedStates, originalSelected, errorsStart,
                   ruleRuns, laterVisible>>

NextMaps == BuildContext \/ ValidateOptionMaps

SpecMaps == InitMaps /\ [][NextMaps]_vars

(***************************************************************************)
(* Claims about the node map and the option maps                           *)
(***************************************************************************)
FieldOnlyRegs(fields) ==
    [i \in DOMAIN fields |->
        [kind |-> "field", id |-> fields[i].id, node |-> <<i>>, fieldId |-> ""]]

RECURSIVE AllOptionRegs(_, _)
AllOptionRegs(fields, i) ==
    IF i > Len(fields) THEN <<>>
    ELSE OptionRegs(fields[i], i) \o AllOptionRegs(fields, i + 1)

\* all tags, then all fields, then all options
TagsFieldsOptions(p) ==
    TagRegs(p.filters) \o FieldOnlyRegs(p.fields) \o AllOptionRegs(p.fields, 1)

FirstWith(regs, id) ==
    regs[CHOOSE i \in DOMAIN regs :
            regs[i].id = id /\ \A j \in DOMAIN regs : regs[j].id = id => i <= j]

AllIds(p) ==
    {p.filters[i].id : i \in DOMAIN p.filters}
    \cup {p.fields[i].id : i \in DOMAIN p.fields}
    \cup UNION {{p.fields[i].options[j].id : j \in DOMAIN p.fields[i].options} :
                   i \in DOMAIN p.fields}

Built == pc # "plain"

\* C12 (as stated): the node retrievable by an id is the first node of that
\* id in the order all tags, then all fields, then all options.
C12_AsStated ==
    Built =>
        /\ DOMAIN vNodeMap = AllIds(props)
        /\ \A id \in DOMAIN vNodeMap :
              vNodeMap[id] = FirstWith(TagsFieldsOptions(props), id)

FirstTag(id) ==
    CHOOSE i \in DOMAIN props.filters :
        props.filters[i].id = id /\ \A j \in 1..(i - 1) : props.filters[j].id # id

OptionIdsOf(f) == {f.options[j].id : j \in DOMAIN f.options}

\* the first field that has the id itself or on one of its options
FirstFieldWith(id) ==
    CHOOSE i \in DOMAIN props.fields :
        /\ props.fields[i].id = id \/ id \in OptionIdsOf(props.fields[i])
        /\ \A j \in 1..(i - 1) :
              props.fields[j].id # id /\ id \notin OptionIdsOf(props.fields[j])

FirstOption(f, id) ==
    CHOOSE j \in DOMAIN f.options :
        f.options[j].id = id /\ \A k \in 1..(j - 1) : f.options[k].id # id

\* C12 (amended): buildNodeMap walks the tags, then every field followed at
\* once by its own options, and skips an id already registered: the node
\* retrievable by an id is the first tag of that id, or else, in the first
\* field that has the id itself or on an option, the field if the id is its
\* own and its first option of that id otherwise; no other node of that id
\* is in the map.
C12_FirstInWalkOrder ==
    Built =>
        /\ DOMAIN vNodeMap = AllIds(props)
        /\ \A id \in DOMAIN vNodeMap :
              /\ vNodeMap[id].id = id
              /\ IF \E i \in DOMAIN props.filters : props.filters[i].id = id
                 THEN vNodeMap[id].kind = "tag" /\ vNodeMap[id].node = <<FirstTag(id)>>
                 ELSE IF props.fields[FirstFieldWith(id)].id = id
                 THEN /\ vNodeMap[id].kind = "field"
                      /\ vNodeMap[id].node = <<FirstFieldWith(id)>>
                 ELSE /\ vNodeMap[id].kind = "option"
                      /\ vNodeMap[id].fieldId = props.fields[FirstFieldWith(id)].id
                      /\ vNodeMap[id].node =
                            <<FirstFieldWith(id),
                              FirstOption(props.fields[FirstFieldWith(id)], id)>>

\* the option of the first field and the second field share an id no tag
\* has, and the id retrieves the option
C12_Witness ==
    /\ Built
    /\ props.fields[1].options[1].id = props.fields[2].id
    /\ \A i \in DOMAIN props.filters : props.filters[i].id # props.fields[2].id
    /\ props.fields[1].id # props.fields[2].id
    /\ vNodeMap[props.fields[2].id].kind = "option"
    /\ vNodeMap[props.fields[2].id].node = <<1, 1>>

MapsChecked == pc = "checked"

TriggerMapKeys == DOMAIN props.includes_for_buttons \cup DOMAIN props.excludes_for_buttons

ReportedBad(k) ==
    \E n \in DOMAIN errors : errors[n].code = "bad_option_key" /\ errors[n].message[2] = k

IsOptionId(k) ==
    /\ Len(k) = 1
    /\ \E i \in DOMAIN props.fields : k[1] \in OptionIdsOf(props.fields[i])

IsButtonFieldId(k) ==
    /\ Len(k) = 1
    /\ \E i \in DOMAIN props.fields : props.fields[i].id = k[1] /\ props.fields[i].button

\* fieldId::optionId, each part read without the blanks around it
NamesOptionOfField(k) ==
    /\ Len(k) = 2
    /\ \E i \in DOMAIN props.fields :
          /\ props.fields[i].id = trimSegment(k[1])
          /\ trimSegment(k[2]) \in OptionIdsOf(props.fields[i])

\* C16 (as stated): bad_option_key is reported for exactly the keys of the
\* trigger maps that are none of an existing option id, the id of an
\* existing button field, and a fieldId::optionId composite naming an
\* option that exists under that field.
C16_AsStated ==
    MapsChecked =>
        \A k \in TriggerMapKeys :
            ReportedBad(k) <=> ~(IsOptionId(k) \/ IsButtonFieldId(k) \/ NamesOptionOfField(k))

UniqueNodeIds ==
    \A id \in AllIds(props) :
        Cardinality({i \in DOMAIN Registrations(props) : Registrations(props)[i].id = id}) = 1

IsTagId(k) == Len(k) = 1 /\ \E i \in DOMAIN props.filters : props.filters[i].id = k[1]

\* the last field of the id named by the composite has the option it names
NamesOptionOfLastField(k) ==
    /\ Len(k) = 2
    /\ \E i \in DOMAIN props.fields :
          /\ props.fields[i].id = trimSegment(k[1])
          /\ \A j \in DOMAIN props.fields : props.fields[j].id = trimSegment(k[1]) => j <= i
          /\ trimSegment(k[2]) \in OptionIdsOf(props.fields[i])

\* C16 (amended): a key that is the id of a node is judged by the node the
\* node map holds for it (the first registered): bad_option_key is reported
\* unless that node is an option or a field with button = true; any other
\* key is reported unless it is a fieldId::optionId composite whose option
\* exists under the last field of that id.  When no id is shared by two
\* nodes this is the statement above, and a tag id or the id of a field
\* that is no button is reported.
C16_BadKeysByNodeMap ==
    MapsChecked =>
        /\ \A k \in TriggerMapKeys :
              IF Len(k) = 1 /\ k[1] \in DOMAIN vNodeMap
              THEN ReportedBad(k) <=>
                      ~ \/ vNodeMap[k[1]].kind = "option"
                        \/ /\ vNodeMap[k[1]].kind = "field"
                           /\ props.fields[vNodeMap[k[1]].node[1]].button
              ELSE ReportedBad(k) <=> ~NamesOptionOfLastField(k)
        /\ UniqueNodeIds =>
              \A k \in TriggerMapKeys :
                  /\ ReportedBad(k) <=>
                        ~(IsOptionId(k) \/ IsButtonFieldId(k) \/ NamesOptionOfField(k))
                  /\ IsTagId(k) => ReportedBad(k)
                  /\ (Len(k) = 1 /\ \E i \in DOMAIN props.fields :
                         props.fields[i].id = k[1] /\ ~props.fields[i].button)
                        => ReportedBad(k)

\* no id is shared; the tag id used as a key is the one key reported, and
\* the composite naming the option of the first field is accepted
C16_Witness ==
    /\ MapsChecked
    /\ UniqueNodeIds
    /\ DOMAIN props.includes_for_buttons = {<<"t1">>}
    /\ DOMAIN props.excludes_for_buttons = {<<"f1", "o1">>}
    /\ ReportedBad(<<"t1">>)
    /\ ~ReportedBad(<<"f1", "o1">>)
    /\ Len(errors) = 1

(***************************************************************************)
(* IEEE-754 double arithmetic on the numbers the rate policies meet.  A    *)
(* non-negative binary number is the record {bits, frac}: its binary       *)
(* digits, most significant first, and how many of them stand after the    *)
(* binary point.  A double holds at most MantissaBits significant digits;  *)
(* every operation computes the exact result and rounds it to nearest,     *)
(* ties to even.  Carries are worked out on groups of ChunkBits digits.    *)
(***************************************************************************)
MantissaBits == 53

ChunkBits == 15

ChunkBase == 2 ^ ChunkBits

\* the fractional digits of a quotient are produced in this many groups
QuotientChunks == 5

\* the w binary digits of v, for 0 <= v < 2^w
FixedBits(v, w) == [i \in 1..w |-> (v \div (2 ^ (w - i))) % 2]

StripZeros(bits) ==
    IF \A i \in DOMAIN bits : bits[i] = 0 THEN <<>>
    ELSE SubSeq(bits, CHOOSE i \in DOMAIN bits :
                         bits[i] = 1 /\ \A j \in 1..(i - 1) : bits[j] = 0,
                Len(bits))

\* the digits of a whole number below 2^30
IntBits(n) == StripZeros(FixedBits(n, 30))

RECURSIVE BitsInt(_)
BitsInt(bits) ==
    IF bits = <<>> THEN 0
    ELSE 2 * BitsInt(SubSeq(bits, 1, Len(bits) - 1)) + bits[Len(bits)]

Zeros(n) == [i \in 1..n |-> 0]

Binary(bits, frac) == [bits |-> StripZeros(bits), frac |-> frac]

FromInt(n) == Binary(IntBits(n), 0)

\* bits + 1: the last 0 becomes 1 and the digits after it 0
Increment(bits) ==
    IF \A i \in DOMAIN bits : bits[i] = 1 THEN <<1>> \o Zeros(Len(bits))
    ELSE [i \in DOMAIN bits |->
            IF \E j \in (i + 1)..Len(bits) : bits[j] = 0 THEN bits[i] ELSE 1 - bits[i]]

\* round to nearest, ties to even; sticky tells that the exact value has
\* non-zero digits beyond those of x
roundKept(kept, guard, sticky) ==
    IF guard = 1 /\ (sticky \/ kept[Len(kept)] = 1) THEN Increment(kept) ELSE kept

RoundToDouble(x, sticky) ==
    IF Len(x.bits) <= MantissaBits THEN x
    ELSE Binary(roundKept(SubSeq(x.bits, 1, MantissaBits),
                          x.bits[MantissaBits + 1],
                          sticky \/ \E i \in (MantissaBits + 2)..Len(x.bits) : x.bits[i] = 1),
                x.frac - (Len(x.bits) - MantissaBits))

\* the digits of r / q after the binary point, n groups of them, and the
\* remainder left
RECURSIVE LongDivision(_, _, _, _)
LongDivision(r, q, n, bits) ==
    IF n = 0 THEN [bits |-> bits, rem |-> r]
    ELSE LongDivision((r * ChunkBase) % q, q, n - 1,
                      bits \o FixedBits((r * ChunkBase) \div q, ChunkBits))

quotientOf(ip, division) ==
    RoundToDouble(Binary(IntBits(ip) \o division.bits, QuotientChunks * ChunkBits),
                  division.rem # 0)

\* a / b for whole numbers a >= 0 and 0 < b < 2^15
Divide(a, b) == quotientOf(a \div b, LongDivision(a % b, b, QuotientChunks, <<>>))

\* the value of the c-th group of digits of bits, counted from the last
ChunkValue(bits, c) ==
    BitsInt(SubSeq(bits, Max2(1, Len(bits) - c * ChunkBits + 1),
                   Len(bits) - (c - 1) * ChunkBits))

ChunksOf(len) == (len + ChunkBits - 1) \div ChunkBits

\* the digits of a + b, of a - b (a >= b) and of a * n, group by group
RECURSIVE AddChunks(_, _, _, _, _)
AddChunks(a, b, c, carry, acc) ==
    IF c > ChunksOf(Max2(Len(a), Len(b))) THEN IntBits(carry) \o acc
    ELSE AddChunks(a, b, c + 1,
                   (ChunkValue(a, c) + ChunkValue(b, c) + carry) \div ChunkBase,
                   FixedBits((ChunkValue(a, c) + ChunkValue(b, c) + carry) % ChunkBase,
                             ChunkBits) \o acc)

RECURSIVE SubChunks(_, _, _, _, _)
SubChunks(a, b, c, borrow, acc) ==
    IF c > ChunksOf(Max2(Len(a), Len(b))) THEN acc
    ELSE SubChunks(a, b, c + 1,
                   IF ChunkValue(a, c) - ChunkValue(b, c) - borrow < 0 THEN 1 ELSE 0,
                   FixedBits((ChunkValue(a, c) - ChunkValue(b, c) - borrow + ChunkBase)
                                 % ChunkBase, ChunkBits) \o acc)

RECURSIVE TimesChunks(_, _, _, _, _)
TimesChunks(a, n, c, carry, acc) ==
    IF c > ChunksOf(Len(a)) THEN IntBits(carry) \o acc
    ELSE TimesChunks(a, n, c + 1, (ChunkValue(a, c) * n + carry) \div ChunkBase,
                     FixedBits((ChunkValue(a, c) * n + carry) % ChunkBase, ChunkBits)
                         \o acc)

\* the digits of x written with frac digits after the point
Aligned(x, frac) == x.bits \o Zeros(frac - x.frac)

plusAt(x, y, frac) ==
    RoundToDouble(Binary(AddChunks(Aligned(x, frac), Aligned(y, frac), 1, 0, <<>>), frac),
                  FALSE)

minusAt(x, y, frac) ==
    RoundToDouble(Binary(SubChunks(Aligned(x, frac), Aligned(y, frac), 1, 0, <<>>), frac),
                  FALSE)

\* x + y, and x - y for x >= y
Plus(x, y) == plusAt(x, y, Max2(x.frac, y.frac))

Minus(x, y) == minusAt(x, y, Max2(x.frac, y.frac))

\* n * x for a whole number 0 <= n < 2^15
Times(n, x) == RoundToDouble(Binary(TimesChunks(x.bits, n, 1, 0, <<>>), x.frac), FALSE)

\* Math.floor of x
Floor(x) == BitsInt(SubSeq(x.bits, 1, Len(x.bits) - x.frac))

(***************************************************************************)
(* core/utils/fallback.ts                                                  *)
(*   - a service id is a whole number; an optional number (a rate, a       *)
(*     service_id, a result that may be null) is <<n>>, or <<>> when       *)
(*     missing;                                                            *)
(*   - a capability is the record {rate, dripfeed, refill, cancel}, a      *)
(*     missing flag being FALSE;                                           *)
(*   - FallbackSettings is the map of the settings the caller gives.       *)
(***************************************************************************)
LtePrimary == [kind |-> "lte_primary", pct |-> 0]
WithinPct(pct) == [kind |-> "within_pct", pct |-> pct]
AtLeastPctLower(pct) == [kind |-> "at_least_pct_lower", pct |-> pct]

DEFAULT_SETTINGS == [requireConstraintFit |-> TRUE, ratePolicy |-> LtePrimary]

\* {...DEFAULT_SETTINGS, ...(settings ?? {})}
settingsOf(given) == given @@ DEFAULT_SETTINGS

getCap(map, id) == IF id \in DOMAIN map THEN <<map[id]>> ELSE <<>>

rateOfCap(cap) == IF cap = <<>> THEN <<>> ELSE cap[1].rate

rateOf(map, id) == rateOfCap(getCap(map, id))

\* candRate <= primaryRate * (1 + pct / 100), in doubles
withinPct(pct, primaryRate, candRate) ==
    candRate <= Floor(Times(primaryRate, Plus(FromInt(1), Divide(pct, 100))))

\* candRate <= primaryRate * (1 - pct / 100), in doubles
atLeastPctLower(pct, primaryRate, candRate) ==
    candRate <= Floor(Times(primaryRate, Minus(FromInt(1), Divide(pct, 100))))

\* rates are whole numbers, so candRate <= x is candRate <= Math.floor(x)
passesRate(policy, primaryRate, candRate) ==
    IF candRate = <<>> \/ primaryRate = <<>> THEN FALSE
    ELSE IF policy.kind = "lte_primary" THEN candRate[1] <= primaryRate[1]
    ELSE IF policy.kind = "within_pct"
    THEN withinPct(policy.pct, primaryRate[1], candRate[1])
    ELSE atLeastPctLower(policy.pct, primaryRate[1], candRate[1])

\* props.filters.find(t => t.id === id) as an index, 0 when there is none
FindById(items, id) ==
    IF \E i \in DOMAIN items : items[i].id = id
    THEN CHOOSE i \in DOMAIN items :
            items[i].id = id /\ \A j \in 1..(i - 1) : items[j].id # id
    ELSE 0

requires(eff, k) == k \in DOMAIN eff /\ eff[k] = TRUE

fitsConstraints(eff, cap) ==
    IF requires(eff, "dripfeed") /\ ~cap.dripfeed THEN FALSE
    ELSE IF requires(eff, "refill") /\ ~cap.refill THEN FALSE
    ELSE ~(requires(eff, "cancel") /\ ~cap.cancel)

satisfiesTagAt(p, i, cap) ==
    IF i = 0 THEN TRUE ELSE fitsConstraints(p.filters[i].constraints, cap)

satisfiesTagConstraints(tagId, p, cap) == satisfiesTagAt(p, FindById(p.filters, tagId), cap)

\* the lists resolveServiceFallback scans, one after the other
listsOf_GlobalFirst(fb, nodeId, primary) ==
    (IF primary \in DOMAIN fb.global THEN fb.global[primary] ELSE <<>>)
    \o (IF nodeId # "" /\ nodeId \in DOMAIN fb.nodes THEN fb.nodes[nodeId] ELSE <<>>)

listsOf(fb, nodeId, primary) ==
    (IF nodeId # "" /\ nodeId \in DOMAIN fb.nodes THEN fb.nodes[nodeId] ELSE <<>>)
    \o (IF primary \in DOMAIN fb.global THEN fb.global[primary] ELSE <<>>)

candidatePasses(params, s, cap) ==
    /\ passesRate(s.ratePolicy, rateOf(params.services, params.primary), cap.rate)
    /\ (s.requireConstraintFit /\ params.tagId # "")
          => satisfiesTagConstraints(params.tagId, params.props, cap)

qualifies(params, s, cand) ==
    /\ cand \in DOMAIN params.services
    /\ candidatePasses(params, s, params.services[cand])

firstOf(cands) == IF cands = <<>> THEN <<>> ELSE <<cands[1]>>

\* tried: a candidate is examined the first time it is met only
firstQualifying(params, s, cands) ==
    firstOf(SelectSeq(dedupe(cands), LAMBDA cand : qualifies(params, s, cand)))

resolveServiceFallback(params) ==
    firstQualifying(params, settingsOf(params.settings),
                    listsOf(params.fallbacks, params.nodeId, params.primary))

bindIdsToArray(bind) == bind

FieldOfOption(fields, optionId) ==
    IF \E i \in DOMAIN fields : optionId \in {fields[i].options[j].id : j \in DOMAIN fields[i].options}
    THEN CHOOSE i \in DOMAIN fields :
            /\ optionId \in {fields[i].options[j].id : j \in DOMAIN fields[i].options}
            /\ \A k \in 1..(i - 1) :
                  optionId \notin {fields[k].options[j].id : j \in DOMAIN fields[k].options}
    ELSE 0

primaryOfOption(f, optionId) ==
    [primary |-> f.options[FindById(f.options, optionId)].service_id,
     tagContexts |-> bindIdsToArray(f.bind_id)]

primaryForNode(p, nodeId) ==
    IF FindById(p.filters, nodeId) # 0
    THEN [primary |-> p.filters[FindById(p.filters, nodeId)].service_id,
          tagContexts |-> <<nodeId>>]
    ELSE IF FieldOfOption(p.fields, nodeId) = 0
    THEN [primary |-> <<>>, tagContexts |-> <<>>]
    ELSE primaryOfOption(p.fields[FieldOfOption(p.fields, nodeId)], nodeId)

Failure(scope, nodeId, primary, candidate, tagContext, reason) ==
    [scope |-> scope, nodeId |-> nodeId, primary |-> primary, candidate |-> candidate,
     tagContext |-> tagContext, reason |-> reason]

RECURSIVE Flatten(_)
Flatten(seqs) == IF seqs = <<>> THEN <<>> ELSE Head(seqs) \o Flatten(Tail(seqs))

mismatches(p, s, nodeId, primary, cand, cap, tagContexts) ==
    LET failing == SelectSeq(tagContexts, LAMBDA tagId :
                       s.requireConstraintFit /\ ~satisfiesTagConstraints(tagId, p, cap))
    IN  [n \in DOMAIN failing |->
            Failure("node", nodeId, <<primary>>, <<cand>>, failing[n], "constraint_mismatch")]

\* the failures collectFailedFallbacks reports for one candidate of a node
nodeCandidate(p, svc, s, nodeId, primary, tagContexts, cand) ==
    IF cand \notin DOMAIN svc
    THEN <<Failure("node", nodeId, <<primary>>, <<cand>>, "", "unknown_service")>>
    ELSE IF cand = primary
    THEN <<Failure("node", nodeId, <<primary>>, <<cand>>, "", "cycle")>>
    ELSE IF ~passesRate(s.ratePolicy, rateOf(svc, primary), svc[cand].rate)
    THEN <<Failure("node", nodeId, <<primary>>, <<cand>>, "", "rate_violation")>>
    ELSE IF tagContexts = <<>>
    THEN <<Failure("node", nodeId, <<primary>>, <<cand>>, "", "no_tag_context")>>
    ELSE mismatches(p, s, nodeId, primary, cand, svc[cand], tagContexts)

nodeFailures(p, svc, s, nodeId, list, node) ==
    IF node.primary = <<>> \/ node.primary = <<0>>
    THEN <<Failure("node", nodeId, <<>>, <<>>, "", "no_primary")>>
    ELSE Flatten([n \in DOMAIN list |->
            nodeCandidate(p, svc, s, nodeId, node.primary[1], node.tagContexts, list[n])])

globalCandidate(svc, s, primary, cand) ==
    IF cand \notin DOMAIN svc
    THEN <<Failure("global", "", <<primary>>, <<cand>>, "", "unknown_service")>>
    ELSE IF cand = primary
    THEN <<Failure("global", "", <<primary>>, <<cand>>, "", "cycle")>>
    ELSE IF ~passesRate(s.ratePolicy, rateOf(svc, primary), svc[cand].rate)
    THEN <<Failure("global", "", <<primary>>, <<cand>>, "", "rate_violation")>>
    ELSE <<>>

\* Object.entries of fallbacks.nodes and fallbacks.global, in insertion order
NodeOrder == <<"t1", "o1", "zz">>
PrimaryOrder == <<1, 7>>

nodeEntries(fb) == SelectSeq(NodeOrder, LAMBDA n : n \in DOMAIN fb.nodes)
globalEntries(fb) == SelectSeq(PrimaryOrder, LAMBDA g : g \in DOMAIN fb.global)

allNodeFailures(p, svc, s, nodes) ==
    Flatten([n \in DOMAIN nodes |->
        nodeFailures(p, svc, s, nodes[n], p.fallbacks.nodes[nodes[n]],
                     primaryForNode(p, nodes[n]))])

globalFailures(p, svc, s, primary) ==
    Flatten([n \in DOMAIN p.fallbacks.global[primary] |->
        globalCandidate(svc, s, primary, p.fallbacks.global[primary][n])])

allGlobalFailures(p, svc, s, primaries) ==
    Flatten([n \in DOMAIN primaries |-> globalFailures(p, svc, s, primaries[n])])

collectFailedFallbacks(p, svc, given) ==
    allNodeFailures(p, svc, settingsOf(given), nodeEntries(p.fallbacks))
    \o allGlobalFailures(p, svc, settingsOf(given), globalEntries(p.fallbacks))

(***************************************************************************)
(* The catalog and the documents of the fallback checks: service 1 is the  *)
(* primary (rate 100); the candidates differ in rate and capabilities, 5   *)
(* has no rate and 9 is not in the catalog.  Tag t1 carries the            *)
(* constraints, field f1 the option o1.                                    *)
(***************************************************************************)
Cap(rate, refill, cancel) ==
    [rate |-> rate, refill |-> refill, cancel |-> cancel, dripfeed |-> FALSE]

Catalog ==
    (1 :> Cap(<<100>>, TRUE, TRUE)) @@ (2 :> Cap(<<109>>, TRUE, FALSE))
    @@ (3 :> Cap(<<111>>, TRUE, TRUE)) @@ (4 :> Cap(<<115>>, FALSE, TRUE))
    @@ (5 :> Cap(<<>>, TRUE, TRUE)) @@ (6 :> Cap(<<90>>, TRUE, TRUE))
    @@ (8 :> Cap(<<110>>, TRUE, TRUE))

SettingsChoices ==
    {EmptyMap,
     "ratePolicy" :> WithinPct(10),
     "ratePolicy" :> WithinPct(15),
     "ratePolicy" :> AtLeastPctLower(10),
     ("requireConstraintFit" :> FALSE) @@ ("ratePolicy" :> WithinPct(15))}

CandidateLists == {<<2, 6>>, <<9, 3, 4>>, <<1, 6>>, <<8, 4, 2>>, <<5, 6, 6>>}

ConstraintChoices == {EmptyMap, "refill" :> TRUE, ("refill" :> FALSE) @@ ("cancel" :> TRUE)}

ServiceTag(id, bind, service, constraints) ==
    ("service_id" :> service) @@ [Tag(id, bind, <<>>, <<>>) EXCEPT !.constraints = constraints]

FallbackDoc(s1, c1, b1, nodes, global) ==
    [filters |-> <<ServiceTag("t1", "", s1, c1), ServiceTag("t2", "t1", <<>>, EmptyMap)>>,
     fields |-> <<Field("f1", b1, FALSE, <<Option("o1", "base")>>, "One")>>,
     fallbacks |-> [nodes |-> nodes, global |-> global]]

GlobalChoices == {EmptyMap} \cup {1 :> l : l \in {<<2, 6>>, <<9, 3, 4>>, <<1, 6>>}}

\* fallbacks on the tag t1, which has the primary service; fallbacks on a
\* tag without a service, on the option o1 of a bound or unbound field, and
\* on a node the document does not have
FallbackDocs ==
    { FallbackDoc(<<1>>, c1, <<"t1">>, nodes, global) :
        c1 \in ConstraintChoices,
        nodes \in {EmptyMap} \cup {"t1" :> l : l \in CandidateLists},
        global \in GlobalChoices }
    \cup
    { FallbackDoc(s1, c1, b1, nodes, global) :
        s1 \in {<<>>}, c1 \in ConstraintChoices, b1 \in {<<>>, <<"t1">>},
        nodes \in {"t1" :> <<2, 6>>}
                  \cup {("o1" :> l) @@ ("zz" :> <<6>>) : l \in {<<1, 6>>, <<8, 4, 2>>}},
        global \in {EmptyMap, 1 :> <<1, 6>>} }

\* the calls: for the primary 1 every node and tag context, and one call
\* for a primary the catalog does not know
FallbackCalls ==
    [primary : {1}, nodeId : {"", "t1", "o1"}, tagId : {"", "t1"}]
    \cup {[primary |-> 7, nodeId |-> "t1", tagId |-> ""]}

InitFallback ==
    /\ pc = "ready"
    /\ props \in FallbackDocs
    /\ selectedKeys = <<>>
    /\ VisIdle
    /\ SimIdle
    /\ NormIdle
    /\ MapIdle
    /\ UiIdle
    /\ services = Catalog
    /\ settings \in SettingsChoices
    /\ fbCall \in FallbackCalls
    /\ fbOut = <<>>
    /\ fbFailed = <<>>

\* resolveServiceFallback({primary, nodeId, tagId, services, fallbacks, settings, props})
Resolve ==
    /\ pc = "ready"
    /\ fbOut' = resolveServiceFallback(
                    [primary |-> fbCall.primary, nodeId |-> fbCall.nodeId,
                     tagId |-> fbCall.tagId, services |-> services,
                     fallbacks |-> props.fallbacks, settings |-> settings,
                     props |-> props])
    /\ pc' = "resolved"
    /\ UNCHANGED <<props, selectedKeys, visVars, simVars, normVars, mapVars, uiVars,
                   services, settings, fbCall, fbFailed>>

\* collectFailedFallbacks(props, services, settings)
CollectFailed ==
    /\ pc = "resolved"
    /\ fbFailed' = collectFailedFallbacks(props, services, settings)
    /\ pc' = "collected"
    /\ UNCHANGED <<props, selectedKeys, visVars, simVars, normVars, mapVars, uiVars,
                   services, settings, fbCall, fbOut>>

NextFallback == Resolve \/ CollectFailed

SpecFallback == InitFallback /\ [][NextFallback]_vars

(***************************************************************************)
(* Claims about the fallback resolver                                      *)
(***************************************************************************)
Resolved == pc \in {"resolved", "collected"}

NodeList ==
    IF fbCall.nodeId # "" /\ fbCall.nodeId \in DOMAIN props.fallbacks.nodes
    THEN props.fallbacks.nodes[fbCall.nodeId] ELSE <<>>

GlobalList ==
    IF fbCall.primary \in DOMAIN props.fallbacks.global
    THEN props.fallbacks.global[fbCall.primary] ELSE <<>>

PolicyInForce ==
    IF "ratePolicy" \in DOMAIN settings THEN settings.ratePolicy ELSE LtePrimary

FitRequired ==
    IF "requireConstraintFit" \in DOMAIN settings THEN settings.requireConstraintFit ELSE TRUE

TagConstraints(tagId) ==
    IF \E i \in DOMAIN props.filters : props.filters[i].id = tagId
    THEN props.filters[FindById(props.filters, tagId)].constraints
    ELSE EmptyMap

HasRequiredCaps(c, tagId) ==
    \A k \in Flags :
        (k \in DOMAIN TagConstraints(tagId) /\ TagConstraints(tagId)[k]) => services[c][k]

Qualifies(c) ==
    /\ c \in DOMAIN services
    /\ passesRate(PolicyInForce, rateOf(services, fbCall.primary), services[c].rate)
    /\ (FitRequired /\ fbCall.tagId # "") => HasRequiredCaps(c, fbCall.tagId)

\* C13: resolveServiceFallback scans the node-scoped list of nodeId (when
\* given and present), then the global list of the primary, and returns the
\* first candidate in that order that is in the catalog, passes the rate
\* policy against the primary's rate and, when constraint fit is required
\* and a tagId is given, has every capability whose flag is true in that
\* tag's constraints; it returns null when no candidate qualifies.
C13_FirstQualifyingCandidate ==
    Resolved =>
        LET scan == NodeList \o GlobalList
            good == {i \in DOMAIN scan : Qualifies(scan[i])}
        IN  IF good = {} THEN fbOut = <<>>
            ELSE \E i \in good : (\A j \in good : i <= j) /\ fbOut = <<scan[i]>>

\* the node list of t1 is scanned before the global list: its first
\* candidate is within the rate policy but lacks the capability the tag
\* requires, its second is returned, the global list holds a candidate that
\* qualifies too
C13_Witness ==
    /\ Resolved
    /\ fbCall = [primary |-> 1, nodeId |-> "t1", tagId |-> "t1"]
    /\ NodeList = <<2, 6>>
    /\ GlobalList = <<1, 6>>
    /\ PolicyInForce = WithinPct(10)
    /\ TagConstraints("t1") = ("refill" :> FALSE) @@ ("cancel" :> TRUE)
    /\ ~Qualifies(2)
    /\ Qualifies(1)
    /\ fbOut = <<6>>

FailureReported(scope, primary, c, reason) ==
    \E n \in DOMAIN fbFailed :
        /\ fbFailed[n].scope = scope
        /\ fbFailed[n].primary = <<primary>>
        /\ fbFailed[n].candidate = <<c>>
        /\ fbFailed[n].reason = reason

\* C14 (as stated): under within_pct(p) a candidate passes the rate check
\* exactly when its rate is at most the primary rate x (1 + p/100); seen on
\* the global lists, where a candidate of the catalog other than the
\* primary is reported as rate_violation exactly when it fails the check.
C14_AsStated ==
    (pc = "collected" /\ PolicyInForce.kind = "within_pct") =>
        \A g \in DOMAIN props.fallbacks.global :
            \A n \in DOMAIN props.fallbacks.global[g] :
                LET c == props.fallbacks.global[g][n]
                IN  (/\ c \in DOMAIN services /\ g \in DOMAIN services
                     /\ c # g
                     /\ services[c].rate # <<>> /\ services[g].rate # <<>>)
                    => (FailureReported("global", g, c, "rate_violation")
                           <=> ~(services[c].rate[1] * 100
                                    <= services[g].rate[1] * (100 + PolicyInForce.pct)))

\* C15 (as stated): a candidate of the node's list that
\* resolveServiceFallback returns for the node's primary service and one of
\* its tag contexts is not reported by collectFailedFallbacks as a failure
\* of that node, candidate and tag context.
C15_AsStated ==
    (/\ pc = "collected"
     /\ fbOut # <<>>
     /\ fbCall.nodeId # "" /\ fbCall.nodeId \in DOMAIN props.fallbacks.nodes
     /\ Contains(NodeList, fbOut[1])
     /\ primaryForNode(props, fbCall.nodeId).primary = <<fbCall.primary>>
     /\ Contains(primaryForNode(props, fbCall.nodeId).tagContexts, fbCall.tagId))
        => ~ \E n \in DOMAIN fbFailed :
                /\ fbFailed[n].scope = "node"
                /\ fbFailed[n].nodeId = fbCall.nodeId
                /\ fbFailed[n].candidate = fbOut
                /\ fbFailed[n].tagContext \in {"", fbCall.tagId}

(***************************************************************************)
(* Further claims about the simulation                                     *)
(***************************************************************************)
\* the findings v.errors held when validateVisibility was called
PriorFindings == validateOptionMaps(props, buildNodeMap(props))

SimulationReturned == pc \in {"returned", "done"} /\ simOpts.simulate

\* every finding the rules raised in the simulated states, repeats included
RaisedBySimulation ==
    Flatten([i \in DOMAIN ruleRuns |-> runVisibilityRulesOnce(props, ruleRuns[i])])

\* C17: after validateVisibility with simulate = true no two findings added
\* during the simulation share (code, nodeId, details.tagId, details.other,
\* message), however many explored states raised them, and the findings the
\* list held before the simulation are unchanged, in their positions.
C17_SimulationFindingsDeduped ==
    SimulationReturned =>
        /\ \A i, j \in (errorsStart + 1)..Len(errors) :
              (/\ errors[i].code = errors[j].code
               /\ errors[i].nodeId = errors[j].nodeId
               /\ errors[i].tagId = errors[j].tagId
               /\ errors[i].other = errors[j].other
               /\ errors[i].message = errors[j].message) => i = j
        /\ errorsStart = Len(PriorFindings)
        /\ SubSeq(errors, 1, errorsStart) = PriorFindings

\* the list held the same finding twice before the simulation; the rules
\* were run in three states or more and raised more findings than are kept
C17_Witness ==
    /\ SimulationReturned
    /\ Len(PriorFindings) >= 2
    /\ PriorFindings[1] = PriorFindings[2]
    /\ Len(ruleRuns) >= 3
    /\ Len(errors) > errorsStart
    /\ Len(RaisedBySimulation) > Len(errors) - errorsStart

\* the simulation ran out of states to visit below its caps
Exhausted ==
    /\ pc \in {"returned", "done"}
    /\ simOpts.simulate
    /\ stack = <<>>
    /\ validatedStates < maxStatesOf(simOpts)
    /\ maxDepthOf(simOpts) >= 1

FirstRoot == resolveRootTags(props.filters)[1].id

\* the option ids, with their fields, of the fields visible under the first
\* root in the caller's selection, the first state visited
VisibleOptionsAtSeed ==
    LET visible == visibleFieldsUnder(props, FirstRoot, selectedKeys)
    IN  UNION {{<<visible[i].id, visible[i].options[j].id>> :
                    j \in DOMAIN visible[i].options} : i \in DOMAIN visible}

IsMapKey(k) ==
    \/ k \in DOMAIN props.includes_for_buttons /\ props.includes_for_buttons[k] # <<>>
    \/ k \in DOMAIN props.excludes_for_buttons /\ props.excludes_for_buttons[k] # <<>>

\* C18 (as stated): with onlyEffectfulTriggers, a visible option whose id is
\* a key of includes_for_buttons or excludes_for_buttons is added to the
\* selection in some explored state when the caps allow (the option counted
\* as added under its id or under its composite fieldId::optionId).
C18_AsStated ==
    (Exhausted /\ simOpts.onlyEffectfulTriggers) =>
        \A fo \in VisibleOptionsAtSeed :
            IsMapKey(<<fo[2]>>) =>
                \E n \in DOMAIN ruleRuns :
                    Contains(ruleRuns[n], <<fo[2]>>) \/ Contains(ruleRuns[n], fo)

(***************************************************************************)
(* visibleFieldsUnder against visibleFieldIdsUnder                         *)
(***************************************************************************)
\* the visibleFieldsUnder call has returned
FieldsReturned == pc = "fields"

\* what visibleFieldIdsUnder returns for the document, tag and selection of
\* that call
IdsOfSameCall == visibleFieldIdsUnder(props, visTag, selectedKeys)

IsFieldId(id) == \E i \in DOMAIN props.fields : props.fields[i].id = id

\* C19 as stated: for every document, tag and selection the fields
\* visibleFieldsUnder returns and the ids visibleFieldIdsUnder returns have
\* the same length and the i-th field's id is the i-th id.
C19_AsStated ==
    FieldsReturned =>
        LET ids == IdsOfSameCall
        IN  /\ Len(visFields) = Len(ids)
            /\ \A i \in DOMAIN ids : visFields[i].id = ids[i]

\* C19: visibleFieldsUnder returns, in the order of visibleFieldIdsUnder, the
\* fields of the document named by the ids it returns; an id that names no
\* field is left out, so that the two lists agree position by position
\* exactly when every returned id names a field.
C19_FieldsOfKnownIds ==
    FieldsReturned =>
        LET ids == IdsOfSameCall
            known == SelectSeq(ids, LAMBDA id : IsFieldId(id))
        IN  /\ Len(visFields) = Len(known)
            /\ \A i \in DOMAIN known :
                  /\ visFields[i].id = known[i]
                  /\ \E j \in DOMAIN props.fields : props.fields[j] = visFields[i]
            /\ (\A i \in DOMAIN ids : IsFieldId(ids[i])) => Len(visFields) = Len(ids)

\* a selected trigger reveals a later field of the document, an id that is no
\* field's and the target: the fields come back in the promoted order, one
\* fewer than the ids
C19_Witness ==
    /\ FieldsReturned
    /\ Contains(IdsOfSameCall, "ghost")
    /\ Len(visFields) >= 2
    /\ visFields[1].id = "f3"
    /\ visFields[2].id = "tgt"
    /\ Len(visFields) + 1 = Len(IdsOfSameCall)

(***************************************************************************)
(* normalise: the injected root tag                                        *)
(***************************************************************************)
\* the tags of the payload and of the normalised document
InputTags == legacyFilters(normIn)
OutputTags == normOut.filters[1]

HasTagNamed(tags, ids) == \E i \in DOMAIN tags : tags[i].id \in ids

\* C20 as stated: when the input document has no root tag, normalise inserts
\* a root tag with id "t:root" and label "Root" as the first tag and keeps all
\* the original tags; when a root tag already exists none is added.
C20_AsStated ==
    pc = "normalised" =>
        IF HasTagNamed(InputTags, {"root", "t:root"})
        THEN Len(OutputTags) = Len(InputTags)
        ELSE /\ Len(OutputTags) = Len(InputTags) + 1
             /\ OutputTags[1].id = "t:root"
             /\ OutputTags[1].label = "Root"
             /\ \A i \in DOMAIN InputTags : OutputTags[i + 1].id = InputTags[i].id

(***************************************************************************)
(* core/tag-relations.ts: the node index (createNodeIndex)                 *)
(***************************************************************************)
\* Builder.visibleFields(tagId, selectedKeys): the builder hands the call to
\* the visibility engine
visibleFields(p, tagId, selected) == visibleFieldIdsUnder(p, tagId, selected)

\* mutant: a field counts as bound to the tag when it is bound to any tag
isFieldBoundDirectToTag_AnyBind(p, fieldId, tagId) ==
    /\ IndexById(p.fields, fieldId) # 0
    /\ p.fields[IndexById(p.fields, fieldId)].bind_id # <<>>

isFieldBoundDirectToTag(p, fieldId, tagId) ==
    /\ IndexById(p.fields, fieldId) # 0
    /\ Contains(p.fields[IndexById(p.fields, fieldId)].bind_id, tagId)

\* a FieldNode of a result: node, or {...node, isInherited: true}
FieldNode(f, inherited) == [id |-> f.id, raw |-> f, isInherited |-> inherited]

\* the loop of getDescendants over the visible ids; an id getField knows no
\* field for is skipped
descendantNodes(p, raw, visible) ==
    [i \in DOMAIN visible |->
        FieldNode(p.fields[IndexById(p.fields, visible[i])],
                  ~(\/ Contains(raw.includes, visible[i])
                    \/ isFieldBoundDirectToTag(p, visible[i], raw.id)))]

\* TagNode.getDescendants of getTag(id)
getDescendants(p, id) ==
    descendantNodes(p, p.filters[IndexById(p.filters, id)],
                    SelectSeq(visibleFields(p, id, <<>>),
                              LAMBDA fid : IndexById(p.fields, fid) # 0))

\* mutant: the walk is not guarded; it stops after one step per tag and one
RECURSIVE lineageIdsFrom_Unguarded(_, _, _)
lineageIdsFrom_Unguarded(tags, cur, out) ==
    IF cur = "" \/ Len(out) > Len(tags) THEN out
    ELSE lineageIdsFrom_Unguarded(tags,
                                  IF IndexById(tags, cur) = 0 THEN ""
                                  ELSE tags[IndexById(tags, cur)].bind_id,
                                  Append(out, cur))

\* lineageIds: the tag and its ancestors, in the order the walk adds them; the
\* walk follows parentById and stops at an id it has added
RECURSIVE lineageIdsFrom(_, _, _)
lineageIdsFrom(tags, cur, out) ==
    IF cur = "" \/ Contains(out, cur) THEN out
    ELSE lineageIdsFrom(tags,
                        IF IndexById(tags, cur) = 0 THEN ""
                        ELSE tags[IndexById(tags, cur)].bind_id,
                        Append(out, cur))

lineageIds(p, tagId) == lineageIdsFrom(p.filters, tagId, <<>>)

\* TagNode.ancestors: the rows of the walk from the parent upwards, nearest
\* first; it stops at an id that is no tag's and at an id it has walked
RECURSIVE ancestorsFrom(_, _, _, _)
ancestorsFrom(tags, cur, index, rows) ==
    IF cur = "" \/ \E r \in DOMAIN rows : rows[r].id = cur THEN rows
    ELSE IF IndexById(tags, cur) = 0 THEN rows
    ELSE ancestorsFrom(tags, tags[IndexById(tags, cur)].bind_id, index + 1,
                       Append(rows, [id |-> cur, direct |-> index = 1, index |-> index]))

ancestors(p, id) ==
    ancestorsFrom(p.filters, p.filters[IndexById(p.filters, id)].bind_id, 1, <<>>)

(***************************************************************************)
(* The documents of the node index checks: the tags P <- C and S, with P   *)
(* possibly under C (a cycle) or under a missing tag and S possibly under  *)
(* itself                                                                  *)
(***************************************************************************)
IndexDocs ==
    { Doc(<<Tag("P", bp, pInc, pExc),
            Tag("C", "P", cInc, <<>>),
            Tag("S", bs, <<"fi">>, <<>>)>>,
          <<Field("fp", bfp, FALSE, <<>>, "P field"),
            Field("fc", <<"C">>, FALSE, <<>>, "C field"),
            Field("fi", bfi, FALSE, <<>>, "Inc field"),
            Field("btn", <<"P">>, TRUE, <<Option("opt", "base")>>, "Btn")>>,
          (<<"btn">> :> <<"fi">>),
          EmptyMap) :
        bp \in {"", "C", "zz"}, bs \in {"", "S"},
        pInc \in {<<>>, <<"fc">>, <<"fi">>}, pExc \in {<<>>, <<"fp">>},
        cInc \in {<<>>, <<"fp">>},
        bfp \in {<<"P">>, <<"P", "C">>},
        bfi \in {<<>>, <<"S">>} }

IndexTags == {"P", "C", "S"}

InitIndex ==
    /\ pc = "indexed"
    /\ props \in IndexDocs
    /\ selectedKeys = <<>>
    /\ VisIdle
    /\ SimIdle
    /\ NormIdle
    /\ CoreIdle

\* index.getTag(t).getDescendants()
GetDescendants ==
    /\ pc = "indexed"
    /\ \E t \in IndexTags :
          /\ idxTag' = t
          /\ idxOut' = getDescendants(props, t)
    /\ pc' = "descendants"
    /\ UNCHANGED <<props, selectedKeys, visVars, simVars, normVars, mapVars, fbVars,
                   selVars, cmtVars>>

\* index.getTag(t).ancestors()
Ancestors ==
    /\ pc = "indexed"
    /\ \E t \in IndexTags :
          /\ idxTag' = t
          /\ idxOut' = ancestors(props, t)
    /\ pc' = "ancestors"
    /\ UNCHANGED <<props, selectedKeys, visVars, simVars, normVars, mapVars, fbVars,
                   selVars, cmtVars>>

\* the lineageIds(t) of the index
LineageIds ==
    /\ pc = "indexed"
    /\ \E t \in IndexTags :
          /\ idxTag' = t
          /\ idxOut' = lineageIds(props, t)
    /\ pc' = "lineage"
    /\ UNCHANGED <<props, selectedKeys, visVars, simVars, normVars, mapVars, fbVars,
                   selVars, cmtVars>>

\* propagateConstraints on the tags of the document
PropagateConstraints ==
    /\ pc = "indexed"
    /\ idxOut' = propagation(props.filters)
    /\ pc' = "propagated"
    /\ UNCHANGED <<props, selectedKeys, visVars, simVars, normVars, mapVars, fbVars,
                   selVars, cmtVars, idxTag>>

NextIndex == GetDescendants \/ Ancestors \/ LineageIds \/ PropagateConstraints

SpecIndex == InitIndex /\ [][NextIndex]_vars

(***************************************************************************)
(* Claims about the node index                                             *)
(***************************************************************************)
DescendantsReturned == pc = "descendants"

ReturnedIds == [i \in DOMAIN idxOut |-> idxOut[i].id]

\* the bind_id chain of tag `from` leads to tag `to` in one step or more
RECURSIVE ReachesUp(_, _, _, _)
ReachesUp(p, from, to, fuel) ==
    /\ fuel > 0
    /\ HasTag(p, from)
    /\ TagNamed(p, from).bind_id # ""
    /\ \/ TagNamed(p, from).bind_id = to
       \/ ReachesUp(p, TagNamed(p, from).bind_id, to, fuel - 1)

DescendantTags(t) ==
    {d \in IndexTags : d # t /\ ReachesUp(props, d, t, Len(props.filters))}

BoundOnlyToDescendants(f, t) ==
    /\ f.bind_id # <<>>
    /\ SeqToSet(f.bind_id) \subseteq DescendantTags(t)

MarkedAsClaimed ==
    \A i \in DOMAIN idxOut :
        idxOut[i].isInherited =
            ~(\/ Contains(idxOut[i].raw.bind_id, idxTag)
              \/ Contains(TagNamed(props, idxTag).includes, idxOut[i].id))

\* C21 as stated: getDescendants() on a tag returns exactly the fields the
\* visibility engine reports visible under the tag with an empty selection,
\* each marked isInherited unless it is bound to the tag directly or listed
\* in the tag's includes; a field bound only to descendant tags is not
\* returned.
C21_AsStated ==
    DescendantsReturned =>
        /\ ReturnedIds = visibleFieldIdsUnder(props, idxTag, <<>>)
        /\ MarkedAsClaimed
        /\ \A i \in DOMAIN props.fields :
              BoundOnlyToDescendants(props.fields[i], idxTag)
                  => ~Contains(ReturnedIds, props.fields[i].id)

\* C21: the same, where a field bound only to descendant tags is not returned
\* unless the tag's own includes list it or one of those descendants is also
\* an ancestor of the tag (a bind_id cycle).
C21_VisibleDescendants ==
    DescendantsReturned =>
        /\ ReturnedIds = visibleFieldIdsUnder(props, idxTag, <<>>)
        /\ MarkedAsClaimed
        /\ \A i \in DOMAIN props.fields :
              (/\ BoundOnlyToDescendants(props.fields[i], idxTag)
               /\ ~Contains(TagNamed(props, idxTag).includes, props.fields[i].id)
               /\ \A b \in SeqToSet(props.fields[i].bind_id) :
                      ~ReachesUp(props, idxTag, b, Len(props.filters)))
                  => ~Contains(ReturnedIds, props.fields[i].id)

\* getDescendants on C, child of P: the field bound to P comes back marked
\* inherited, the field bound to C comes back unmarked
C21_Witness ==
    /\ DescendantsReturned
    /\ idxTag = "C"
    /\ TagNamed(props, "P").bind_id = ""
    /\ TagNamed(props, "C").includes = <<>>
    /\ \E i, j \in DOMAIN idxOut :
          /\ idxOut[i].id = "fp" /\ idxOut[i].isInherited
          /\ idxOut[j].id = "fc" /\ ~idxOut[j].isInherited

\* the tags without a resolvable parent: no bind_id, or one that names no tag
UnparentedTags ==
    {props.filters[i].id : i \in {j \in DOMAIN props.filters :
        \/ props.filters[j].bind_id = ""
        \/ ~HasTag(props, props.filters[j].bind_id)}}

\* C22 (as stated): with simulateAllRoots the exploration starts from every
\* root tag: for each tag without a resolvable parent, every trigger
\* selectable under it in the seed selection (after the effectful filter) is
\* added to the selection in some explored state, when maxStates and
\* maxDepth allow.
C22_AsStated ==
    (Exhausted /\ simOpts.simulateAllRoots) =>
        \A r \in UnparentedTags :
            \A t \in SeqToSet(collectSelectableTriggersInContext(
                                  props, r, selectedKeys,
                                  simOpts.onlyEffectfulTriggers)) :
                \E n \in DOMAIN ruleRuns : Contains(ruleRuns[n], t)

(***************************************************************************)
(* The documents of the ordering checks: the forest root <- A <- B of the  *)
(* visibility checks, trigger maps whose lists differ from key to key, and *)
(* an order_for_tags that is missing, empty, or pins ids for A and B       *)
(***************************************************************************)
OrderMaps ==
    { [inc |-> (KeyO1 :> <<"f3", "ghost", "tgt">>) @@ (KeyF2O2 :> <<"tgt", "f2">>),
       exc |-> (KeyF3 :> <<"tgt">>)],
      [inc |-> (KeyF3 :> <<"tgt">>) @@ (KeyO1 :> <<"f2">>),
       exc |-> (KeyF2O2 :> <<"tgt">>)],
      [inc |-> (KeyO1 :> <<"tgt">>) @@ (KeyF3 :> <<"f1", "tgt">>),
       exc |-> (KeyO1 :> <<"f2">>) @@ (KeyF2O2 :> <<"f1">>)] }

PinnedOrders ==
    { EmptyMap,
      "A" :> <<>>,
      "A" :> <<"f2", "tgt", "f2", "ghost">>,
      ("A" :> <<"f3">>) @@ ("B" :> <<"tgt", "f1">>) }

OrderDocs ==
    { [Doc(<<Tag("root", "", <<>>, <<>>),
             Tag("A", "root", <<>>, <<>>),
             Tag("B", "A", <<>>, <<>>),
             Tag("X", "root", <<>>, <<>>)>>,
           <<Field("f1", b1, FALSE, <<Option("o1", "base")>>, "One"),
             Field("f2", <<"root", "B">>, FALSE, <<Option("o2", "base")>>, "Two"),
             Field("f3", <<"root">>, TRUE, <<>>, "Three"),
             Field("tgt", tb, FALSE, <<>>, "Target")>>,
           m.inc, m.exc) EXCEPT !.order_for_tags = o] :
        b1 \in {<<"A">>, <<"B">>}, tb \in {<<>>, <<"root">>, <<"B">>},
        m \in OrderMaps, o \in PinnedOrders }

InitOrder ==
    /\ pc = "select"
    /\ props \in OrderDocs
    /\ selectedKeys = <<>>
    /\ VisIdle
    /\ SimIdle
    /\ NormIdle
    /\ CoreIdle

SpecOrder == InitOrder /\ [][NextVis]_vars

(***************************************************************************)
(* Claims about the order and the set of the visible ids                   *)
(***************************************************************************)
IdsReturned == pc = "visible"

DeclaredIds == [i \in DOMAIN props.fields |-> props.fields[i].id]

\* `first` restricted to the returned ids, then the returned ids that `first`
\* does not hold, in field-declaration order
FirstThenDeclared(first) ==
    SelectSeq(first, LAMBDA fid : Contains(visOut, fid))
    \o SelectSeq(DeclaredIds, LAMBDA fid : Contains(visOut, fid) /\ ~Contains(first, fid))

\* the selected keys that act under the tag of the call, in selection order
RelevantInOrder ==
    SelectSeq(selectedKeys, LAMBDA k : KeyDepth(props, visTag, k) # NoDepth)

\* the ids their include lists name, each once, in the order the triggers
\* are processed
RECURSIVE IncludedBy(_)
IncludedBy(keys) ==
    IF keys = <<>> THEN <<>>
    ELSE MapGet(props.includes_for_buttons, Head(keys)) \o IncludedBy(Tail(keys))

RevealedInOrder == dedupe(IncludedBy(RelevantInOrder))

\* C23 as stated: when order_for_tags[tagId] exists the visible ids come in
\* the pinned order first, then the remaining visible ids in declaration
\* order; otherwise the ids revealed by an include decision come first, in
\* the order their triggers were processed, then the remaining visible ids
\* in declaration order.
C23_AsStated ==
    IdsReturned =>
        IF visTag \in DOMAIN props.order_for_tags
        THEN visOut = FirstThenDeclared(props.order_for_tags[visTag])
        ELSE visOut = FirstThenDeclared(RevealedInOrder)

\* C23: the same, where the pinned order is used when order_for_tags[tagId]
\* exists and is not empty; an empty pinned order counts as none.
C23_PinnedThenRevealed ==
    IdsReturned =>
        IF visTag \in DOMAIN props.order_for_tags /\ props.order_for_tags[visTag] # <<>>
        THEN visOut = FirstThenDeclared(props.order_for_tags[visTag])
        ELSE visOut = FirstThenDeclared(RevealedInOrder)

\* under A with an empty pinned order: the selected option reveals f3 and the
\* target, which come first although they are declared last
C23_Witness ==
    /\ IdsReturned
    /\ visTag = "A"
    /\ "A" \in DOMAIN props.order_for_tags
    /\ props.order_for_tags["A"] = <<>>
    /\ Len(visOut) >= 3
    /\ visOut[1] = "f3"
    /\ DeclaredIds[1] = "f1"
    /\ Contains(visOut, "f1")

\* the orders a selection can be inserted in
Insertions(keys) ==
    {s \in [1..Len(keys) -> SeqToSet(keys)] : SeqToSet(s) = SeqToSet(keys)}

\* C26: for a document and a tag, the set of the ids visibleFieldIdsUnder
\* returns is the same for every insertion order of the same selected keys.
C26_SetIndependentOfInsertionOrder ==
    IdsReturned =>
        \A s \in Insertions(selectedKeys) :
            SeqToSet(visibleFieldIdsUnder(props, visTag, s)) = SeqToSet(visOut)

\* two keys that decide on the target at the same depth, one including and
\* one excluding it, selected in an order for which the other order returns
\* another list with the same ids
C26_Witness ==
    /\ IdsReturned
    /\ Len(selectedKeys) >= 2
    /\ \E k1, k2 \in SeqToSet(selectedKeys) :
          /\ KeyIncludes(props, k1, "tgt") /\ KeyExcludes(props, k2, "tgt")
          /\ KeyDepth(props, visTag, k1) # NoDepth
          /\ KeyDepth(props, visTag, k1) = KeyDepth(props, visTag, k2)
    /\ \E s \in Insertions(selectedKeys) :
          visibleFieldIdsUnder(props, visTag, s) # visOut

(***************************************************************************)
(* The walks over bind_id chains on documents with cycles                  *)
(***************************************************************************)
NoRepeat(s) == \A i, j \in DOMAIN s : s[i] = s[j] => i = j

\* the document holds a tag that is its own ancestor
OnCycle(t) == ReachesUp(props, t, t, Len(props.filters))

Cyclic == \E t \in IndexTags : OnCycle(t)

\* the depths the lineage walk of visibleFieldIdsUnder gives the tags of the
\* lineage of the tag of the call
LineageOfCall == lineageDepth(props, idxTag)

\* C24: on a document whose bind_id chains hold a cycle, the lineage walk of
\* visibleFieldIdsUnder, the lineage and ancestor walks of the node index and
\* the constraint propagation end, and none visits a tag twice: the lineage
\* depths are 0, 1, ... one per tag, and the ids the other walks collect hold
\* no id twice.
C24_WalksVisitOnce ==
    Cyclic =>
        /\ pc = "descendants" =>
              /\ DOMAIN LineageOfCall \subseteq IndexTags
              /\ {LineageOfCall[t] : t \in DOMAIN LineageOfCall}
                    = 0..(Cardinality(DOMAIN LineageOfCall) - 1)
              /\ \A t, u \in DOMAIN LineageOfCall :
                    LineageOfCall[t] = LineageOfCall[u] => t = u
        /\ pc = "lineage" => NoRepeat(idxOut) /\ Len(idxOut) <= Len(props.filters) + 1
        /\ pc = "ancestors" =>
              /\ NoRepeat([i \in DOMAIN idxOut |-> idxOut[i].id])
              /\ \A i \in DOMAIN idxOut : idxOut[i].index = i
        /\ pc = "propagated" =>
              /\ NoRepeat(idxOut.visited)
              /\ SeqToSet(idxOut.visited) \subseteq IndexTags

\* P is bound to C and C to P: the lineage of P is P, C and the walk ends there
C24_Witness ==
    /\ pc = "lineage"
    /\ idxTag = "P"
    /\ OnCycle("P")
    /\ idxOut = <<"P", "C">>

(***************************************************************************)
(* The coverage of the constraint propagation                              *)
(***************************************************************************)
\* tag i lies on a bind_id cycle of the declared tags
OnBindCycle(i) == ~Rooted(DeclaredTags, i)

HasRoots == rootsOf(DeclaredTags) # <<>>

\* C25 (as stated): after normalise the propagation has processed every tag
\* of the document, the tags on a bind_id cycle included when the document
\* also holds root tags: every tag that declares a boolean value for a flag
\* has a constraints_origin entry for that flag.  (Documents with unique tag
\* ids.)
C25_AsStated ==
    Propagated =>
        \A i \in DOMAIN DeclaredTags : \A k \in Flags :
            k \in DOMAIN DeclaredTags[i].constraints
                => k \in DOMAIN PropagatedTags[i].constraints_origin

\* a document with a root whose tag A, on the cycle A <-> B, declares refill
\* and comes out of normalise without an origin for it
C25_CycleBesideRoots ==
    /\ Propagated
    /\ HasRoots
    /\ \E i \in DOMAIN DeclaredTags :
          /\ OnBindCycle(i)
          /\ "refill" \in DOMAIN DeclaredTags[i].constraints
          /\ "refill" \notin DOMAIN PropagatedTags[i].constraints_origin

(***************************************************************************)
(* The plain run against the simulation                                    *)
(***************************************************************************)
\* the findings validateVisibility reports for the caller's selection with
\* simulate = false
PlainFindings == runVisibilityRulesOnce(props, selectedKeys)

\* the findings the call added to v.errors
AddedFindings == {errors[i] : i \in (errorsStart + 1)..Len(errors)}

\* C27: for the same document and caller selection, every finding that
\* validateVisibility reports with simulate = false is among the findings it
\* reports with simulate = true, whatever maxStates and maxDepth are.
C27_SimulationOnlyAdds ==
    SimulationReturned => SeqToSet(PlainFindings) \subseteq AddedFindings

\* a simulation called with maxStates = 0 and maxDepth = -1 on a selection
\* for which the plain run has findings
C27_Witness ==
    /\ SimulationReturned
    /\ simOpts.maxStates = <<0>>
    /\ simOpts.maxDepth = <<-1>>
    /\ PlainFindings # <<>>
    /\ selectedKeys # <<>>
    /\ SeqToSet(PlainFindings) \subseteq AddedFindings

(***************************************************************************)
(* react/canvas/selection.ts: the Selection of the canvas.  The set is a   *)
(* sequence in insertion order; "" stands for undefined.  The ids of the   *)
(* model: two tags, a field, its option, their composite key and an id of  *)
(* no node.                                                                *)
(***************************************************************************)
SelectionIds == {"t:a", "t:b", "f:a", "o:1", "f:a::o:1", "x"}

\* id.startsWith("t:"), id.startsWith("o:")
isTagId(id) == id \in {"t:root", "t:a", "t:b"}
isOptionId(id) == id \in {"o:1", "o:2"}

\* id.includes("::") and id.split("::"): <<fid, oid>>, <<>> for an id
\* without "::"
splitComposite(id) == IF id = "f:a::o:1" THEN <<"f:a", "o:1">> ELSE <<>>

\* fields.find(x => x.id === id) as an index, 0 when there is none
findField(p, id) ==
    IF \E i \in DOMAIN p.fields : p.fields[i].id = id
    THEN Min({i \in DOMAIN p.fields : p.fields[i].id = id})
    ELSE 0

\* fields.find(x => x.options.some(o => o.id === id)) as an index
findHost(p, id) ==
    IF \E i \in DOMAIN p.fields : Contains([j \in DOMAIN p.fields[i].options |->
                                               p.fields[i].options[j].id], id)
    THEN Min({i \in DOMAIN p.fields :
                 Contains([j \in DOMAIN p.fields[i].options |-> p.fields[i].options[j].id], id)})
    ELSE 0

\* f?.bind_id is truthy (a missing bind_id is <<>>)
isBound(p, i) == i # 0 /\ p.fields[i].bind_id # <<>>

\* the tag context an id leads to by itself: the tag, the first bind of the
\* field, of the option's host, of the composite key's field; "" for none
tagContextOf(p, id) ==
    IF HasTag(p, id) THEN id
    ELSE IF isBound(p, findField(p, id)) THEN p.fields[findField(p, id)].bind_id[1]
    ELSE IF isOptionId(id) /\ isBound(p, findHost(p, id))
    THEN p.fields[findHost(p, id)].bind_id[1]
    ELSE IF splitComposite(id) # <<>> /\ isBound(p, findField(p, splitComposite(id)[1]))
    THEN p.fields[findField(p, splitComposite(id)[1])].bind_id[1]
    ELSE ""

\* updateCurrentTagFrom(id): the new currentTagId
updateCurrentTagFrom(p, current, id) ==
    IF tagContextOf(p, id) # "" THEN tagContextOf(p, id) ELSE current

\* many: primary ?? this.set.values().next().value
manyPrimary(ids, primary) ==
    IF primary # "" THEN primary
    ELSE IF ids = <<>> THEN "" ELSE ids[1]

\* the context of the first selected field with a bind, "" for none
firstFieldContext(p, set) ==
    LET hits == SelectSeq(set, LAMBDA id : isBound(p, findField(p, id)))
    IN  IF hits = <<>> THEN "" ELSE p.fields[findField(p, hits[1])].bind_id[1]

\* the context an option id or a composite key leads to, "" for none
hostContextOf(p, id) ==
    IF isOptionId(id) /\ isBound(p, findHost(p, id))
    THEN p.fields[findHost(p, id)].bind_id[1]
    ELSE IF splitComposite(id) # <<>> /\ isBound(p, findField(p, splitComposite(id)[1]))
    THEN p.fields[findField(p, splitComposite(id)[1])].bind_id[1]
    ELSE ""

firstHostContext(p, set) ==
    LET hits == SelectSeq(set, LAMBDA id : hostContextOf(p, id) # "")
    IN  IF hits = <<>> THEN "" ELSE hostContextOf(p, hits[1])

resolveTagContextId(p, o, set, current) ==
    IF current # "" THEN current
    ELSE IF SelectSeq(set, isTagId) # <<>> THEN SelectSeq(set, isTagId)[1]
    ELSE IF firstFieldContext(p, set) # "" THEN firstFieldContext(p, set)
    ELSE IF firstHostContext(p, set) # "" THEN firstHostContext(p, set)
    ELSE o.rootTagId

\* the selected option ids and button-field ids, as one-part trigger keys
selectedButtonTriggerIds(p, set) ==
    LET ids == SelectSeq(set, LAMBDA id :
                   \/ isOptionId(id)
                   \/ IndexById(p.fields, id) # 0 /\ p.fields[IndexById(p.fields, id)].button)
    IN  [i \in DOMAIN ids |-> <<ids[i]>>]

\* the ancestry walk of computeGroupForTag, guarded against cycles
RECURSIVE parentTagsFrom(_, _, _)
parentTagsFrom(p, cur, out) ==
    IF cur = "" \/ Contains(out, cur) \/ IndexById(p.filters, cur) = 0 THEN out
    ELSE parentTagsFrom(p, p.filters[IndexById(p.filters, cur)].bind_id, Append(out, cur))

\* findOptionById as <<field index, option index>>, <<>> for none
findOptionById(p, selId) ==
    IF isOptionId(selId) /\ findHost(p, selId) # 0
    THEN LET f == p.fields[findHost(p, selId)]
         IN  <<findHost(p, selId), Min({j \in DOMAIN f.options : f.options[j].id = selId})>>
    ELSE IF splitComposite(selId) # <<>> /\ findField(p, splitComposite(selId)[1]) # 0
    THEN LET i == findField(p, splitComposite(selId)[1])
             hits == {j \in DOMAIN p.fields[i].options :
                         p.fields[i].options[j].id \in {splitComposite(selId)[2], selId}}
         IN  IF hits = {} THEN <<>> ELSE <<i, Min(hits)>>
    ELSE <<>>

\* the services of the selected options, the first base one put in front
\* (addServiceByRole); the tags and fields of the documents carry no
\* service_id
RECURSIVE servicesOf(_, _, _, _)
servicesOf(p, set, out, baseOverridden) ==
    IF set = <<>> THEN out
    ELSE LET at == findOptionById(p, Head(set))
         IN  IF at = <<>> \/ p.fields[at[1]].options[at[2]].service_id = <<>>
             THEN servicesOf(p, Tail(set), out, baseOverridden)
             ELSE LET o == p.fields[at[1]].options[at[2]]
                  IN  IF o.pricing_role = "base" /\ ~baseOverridden
                      THEN servicesOf(p, Tail(set), <<o.service_id[1]>> \o out, TRUE)
                      ELSE servicesOf(p, Tail(set), Append(out, o.service_id[1]),
                                      baseOverridden)

computeGroupForTag(p, set, tagId) ==
    LET fieldIds == visibleFields(p, tagId, selectedButtonTriggerIds(p, set))
    IN  [tagId |-> tagId,
         tag |-> IF IndexById(p.filters, tagId) = 0 THEN <<>>
                 ELSE <<p.filters[IndexById(p.filters, tagId)]>>,
         fields |-> FieldsOfIds(p, SelectSeq(fieldIds, LAMBDA id : IndexById(p.fields, id) # 0)),
         fieldIds |-> fieldIds,
         parentTags |-> IF IndexById(p.filters, tagId) = 0 THEN <<>>
                        ELSE parentTagsFrom(p, p.filters[IndexById(p.filters, tagId)].bind_id,
                                            <<>>),
         childrenTags |-> SelectSeq([i \in DOMAIN p.filters |-> p.filters[i].id],
                                    LAMBDA t : TagNamed(p, t).bind_id = tagId),
         services |-> servicesOf(p, set, <<>>, FALSE)]

EmptyGroup == [fields |-> <<>>, fieldIds |-> <<>>]

visibleGroup(p, o, set, current) ==
    IF o.env = "workspace" /\ Len(SelectSeq(set, isTagId)) > 1
    THEN [kind |-> "multi", groups |-> set]
    ELSE IF resolveTagContextId(p, o, set, current) = ""
    THEN [kind |-> "single", group |-> EmptyGroup]
    ELSE [kind |-> "single",
          group |-> computeGroupForTag(p, set, resolveTagContextId(p, o, set, current))]

(***************************************************************************)
(* The selections of the canvas: a document with the tags t:root <- t:a,   *)
(* t:b, the field f:a owned by t:b (or by no tag) with the option o:1, and *)
(* a field revealed by the option                                          *)
(***************************************************************************)
SelectionDocs ==
    { Doc(<<Tag("t:root", "", <<>>, <<>>),
            Tag("t:a", "t:root", <<>>, <<>>),
            Tag("t:b", "t:root", <<>>, <<>>)>>,
          <<Field("f:a", ba, button, <<Option("o:1", "base")>>, "A"),
            Field("f:r", <<"t:root">>, FALSE, <<>>, "R"),
            Field("f:more", <<>>, FALSE, <<>>, "More")>>,
          (<<"o:1">> :> <<"f:more">>),
          (<<"f:a">> :> <<"f:r">>)) :
        ba \in {<<"t:b", "t:a">>, <<>>}, button \in BOOLEAN }

SelectionOptions == [env : {"client", "workspace"}, rootTagId : {"", "t:root"}]

\* the largest selection the canvas builds by adding ids one at a time
MaxSelected == 3

\* the calls of many(ids, primary): ids with a repeat, a primary left out,
\* among the ids, and not among them
ManyCalls ==
    {<<>>, <<"f:a">>, <<"t:a", "t:b">>, <<"x", "f:a", "x">>, <<"o:1", "f:a::o:1">>}
    \X {"", "f:a", "t:b", "x"}

\* new Selection(builder, opts)
InitSelection ==
    /\ pc = "selecting"
    /\ props \in SelectionDocs
    /\ selectedKeys = <<>>
    /\ VisIdle
    /\ SimIdle
    /\ NormIdle
    /\ MapIdle
    /\ FbIdle
    /\ IdxIdle
    /\ CmtIdle
    /\ selOpts \in SelectionOptions
    /\ selSet = <<>>
    /\ primaryId = ""
    /\ currentTagId = ""
    /\ groupOut = <<>>

Mutable == pc \in {"selecting", "cleared"}

SelectionFrame ==
    UNCHANGED <<props, selectedKeys, visVars, simVars, normVars, mapVars, fbVars,
                idxVars, cmtVars, selOpts, groupOut>>

\* the body of clear(): nothing when the selection is empty already;
\* currentTagId is not assigned
ClearBody ==
    IF selSet = <<>> /\ primaryId = ""
    THEN UNCHANGED <<pc, selSet, primaryId, currentTagId>>
    ELSE /\ selSet' = <<>>
         /\ primaryId' = ""
         /\ currentTagId' = currentTagId
         /\ pc' = "cleared"

\* the body of add(id)
AddBody(id) ==
    /\ selSet' = SetAdd(selSet, id)
    /\ primaryId' = id
    /\ currentTagId' = updateCurrentTagFrom(props, currentTagId, id)
    /\ pc' = "selecting"

\* the body of remove(id): nothing when the id is not selected
RemoveBody(id) ==
    IF ~Contains(selSet, id)
    THEN UNCHANGED <<pc, selSet, primaryId, currentTagId>>
    ELSE LET rest == SelectSeq(selSet, LAMBDA x : x # id)
             next == IF rest = <<>> THEN "" ELSE rest[1]
         IN  /\ selSet' = rest
             /\ primaryId' = IF primaryId = id THEN next ELSE primaryId
             /\ currentTagId' = IF primaryId = id /\ next # ""
                                THEN updateCurrentTagFrom(props, currentTagId, next)
                                ELSE currentTagId
             /\ pc' = "selecting"

\* replace(id), replace() for id = ""
Replace ==
    /\ Mutable
    /\ \E id \in SelectionIds \cup {""} :
          IF id = "" THEN ClearBody
          ELSE /\ selSet' = <<id>>
               /\ primaryId' = id
               /\ currentTagId' = updateCurrentTagFrom(props, currentTagId, id)
               /\ pc' = "selecting"
    /\ SelectionFrame

\* add(id)
Add ==
    /\ Mutable
    /\ \E id \in SelectionIds :
          /\ Contains(selSet, id) \/ Len(selSet) < MaxSelected
          /\ AddBody(id)
    /\ SelectionFrame

\* remove(id)
Remove ==
    /\ Mutable
    /\ \E id \in SelectionIds : RemoveBody(id)
    /\ SelectionFrame

\* toggle(id)
Toggle ==
    /\ Mutable
    /\ \E id \in SelectionIds :
          IF Contains(selSet, id) THEN RemoveBody(id)
          ELSE Len(selSet) < MaxSelected /\ AddBody(id)
    /\ SelectionFrame

\* many(ids, primary)
Many ==
    /\ Mutable
    /\ \E call \in ManyCalls :
          /\ selSet' = dedupe(call[1])
          /\ primaryId' = manyPrimary(dedupe(call[1]), call[2])
          /\ currentTagId' =
                IF manyPrimary(dedupe(call[1]), call[2]) # ""
                THEN updateCurrentTagFrom(props, currentTagId,
                                          manyPrimary(dedupe(call[1]), call[2]))
                ELSE currentTagId
          /\ pc' = "selecting"
    /\ SelectionFrame

\* clear()
Clear ==
    /\ Mutable
    /\ ClearBody
    /\ SelectionFrame

\* visibleGroup(), called on the selection as it is or right after a clear()
\* that emptied it
VisibleGroup ==
    /\ Mutable
    /\ groupOut' = visibleGroup(props, selOpts, selSet, currentTagId)
    /\ pc' = IF pc = "cleared" THEN "groupAfterClear" ELSE "group"
    /\ UNCHANGED <<props, selectedKeys, visVars, simVars, normVars, mapVars, fbVars,
                   idxVars, cmtVars, selOpts, selSet, primaryId, currentTagId>>

NextSelection ==
    \/ Replace
    \/ Add
    \/ Remove
    \/ Toggle
    \/ Many
    \/ Clear
    \/ VisibleGroup

SpecSelection == InitSelection /\ [][NextSelection]_vars

(***************************************************************************)
(* Claims about the Selection                                              *)
(***************************************************************************)
\* C28 (as stated): after any sequence of replace, add, remove, toggle, many
\* and clear calls on a Selection, primary() is undefined or an id that
\* all() holds.
C28_AsStated ==
    Mutable => (primaryId = "" \/ Contains(selSet, primaryId))

\* C29 (as stated): after clear() has emptied a Selection, visibleGroup()
\* computes the group for the configured rootTagId, or returns the empty
\* group when none is configured, and not the group of the tag context a
\* node selected earlier left behind.
C29_AsStated ==
    pc = "groupAfterClear" =>
        /\ groupOut.kind = "single"
        /\ IF selOpts.rootTagId = "" THEN groupOut.group = EmptyGroup
           ELSE groupOut.group = computeGroupForTag(props, <<>>, selOpts.rootTagId)

(***************************************************************************)
(* react/canvas/comments.ts: CommentsAPI, constructed with a backend and a *)
(* scope.  `threads` is the Map of the API in insertion order,             *)
(* `backendThreads` the ids of the threads the backend holds, `retryJobs`  *)
(* the pending jobs of the retry queue by job id.  The events emitted on   *)
(* the bus are not state of the API and are left out.                      *)
(***************************************************************************)
ThreadIds == {"th1", "th2", "th3"}

\* the createdAt of the threads: th2 is the oldest, th1 the newest
CreatedAt == ("th1" :> 3) @@ ("th2" :> 1) @@ ("th3" :> 2)

BackendThread(id) == [id |-> id, createdAt |-> CreatedAt[id]]

\* res.value of backend.listThreads: the threads the backend holds
listThreads(held) ==
    SelectSeq(<<BackendThread("th1"), BackendThread("th2"), BackendThread("th3")>>,
              LAMBDA th : th.id \in held)

\* Array.prototype.sort by createdAt: stable, equal keys keep their order
RECURSIVE sortByCreatedAt(_)
sortByCreatedAt(ths) ==
    IF ths = <<>> THEN <<>>
    ELSE LET oldest == CHOOSE i \in DOMAIN ths :
                           \A j \in DOMAIN ths :
                               \/ ths[i].createdAt < ths[j].createdAt
                               \/ ths[i].createdAt = ths[j].createdAt /\ i <= j
         IN  <<ths[oldest]>>
             \o sortByCreatedAt([k \in 1..(Len(ths) - 1) |->
                                    IF k < oldest THEN ths[k] ELSE ths[k + 1]])

\* list() and get(id) of the API; get is <<>> for undefined
listOf(ths) == sortByCreatedAt(ths)

getOf(ths, id) ==
    IF IndexById(ths, id) = 0 THEN <<>> ELSE <<ths[IndexById(ths, id)]>>

\* Map.delete and Map.set of a key the map does not hold
mapDelete(ths, id) == SelectSeq(ths, LAMBDA th : th.id # id)
mapSet(ths, th) == Append(mapDelete(ths, th.id), th)

\* comments:delete_thread:<branch>:<threadId>
deleteJobId(threadId) == <<"comments:delete_thread", threadId>>

\* RetryQueue.enqueue: the job is pending under its id
enqueue(jobs, id, job) == (id :> job) @@ jobs

\* the queue drops a job whose perform() returned true and keeps the others
settle(jobs, id, done) ==
    IF done THEN [j \in DOMAIN jobs \ {id} |-> jobs[j]] ELSE jobs

\* RetryQueue.cancel
cancel(jobs, id) == [j \in DOMAIN jobs \ {id} |-> jobs[j]]

\* the rollback of deleteThread after a failed backend call
rolledBack(ths, prev) == mapSet(ths, prev)

InitComments ==
    /\ pc = "comments"
    /\ props = NoDoc
    /\ selectedKeys = <<>>
    /\ VisIdle
    /\ SimIdle
    /\ NormIdle
    /\ MapIdle
    /\ FbIdle
    /\ IdxIdle
    /\ SelIdle
    /\ threads = <<>>
    /\ backendThreads \in SUBSET ThreadIds
    /\ retryJobs = EmptyMap

CommentsFrame ==
    UNCHANGED <<pc, props, selectedKeys, visVars, simVars, normVars, mapVars, fbVars,
                idxVars, selVars>>

\* loadAll(): the backend's threads replace the local ones, or the call
\* fails and nothing changes
LoadAll ==
    /\ pc = "comments"
    /\ \E ok \in BOOLEAN :
          threads' = IF ok
                     THEN [i \in DOMAIN listThreads(backendThreads) |->
                              [id |-> listThreads(backendThreads)[i].id,
                               createdAt |-> listThreads(backendThreads)[i].createdAt,
                               sync |-> "synced"]]
                     ELSE threads
    /\ UNCHANGED <<backendThreads, retryJobs>>
    /\ CommentsFrame

\* deleteThread(threadId): the local delete, the backend call, and after a
\* failed call the retry job and the rollback
DeleteThread ==
    /\ pc = "comments"
    /\ \E threadId \in ThreadIds, ok \in BOOLEAN :
          IF getOf(threads, threadId) = <<>>
          THEN UNCHANGED <<threads, backendThreads, retryJobs>>
          ELSE IF ok
          THEN /\ threads' = mapDelete(threads, threadId)
               /\ backendThreads' = backendThreads \ {threadId}
               /\ UNCHANGED retryJobs
          ELSE /\ retryJobs' = enqueue(retryJobs, deleteJobId(threadId),
                                       [threadId |-> threadId])
               /\ threads' = rolledBack(mapDelete(threads, threadId),
                                        getOf(threads, threadId)[1])
               /\ UNCHANGED backendThreads
    /\ CommentsFrame

\* the retry queue runs a pending job: perform() calls the backend again and
\* returns whether the call succeeded; nothing else of the API is touched
RetryJob ==
    /\ pc = "comments"
    /\ \E id \in DOMAIN retryJobs, ok \in BOOLEAN :
          /\ backendThreads' = IF ok THEN backendThreads \ {retryJobs[id].threadId}
                               ELSE backendThreads
          /\ retryJobs' = settle(retryJobs, id, ok)
    /\ UNCHANGED threads
    /\ CommentsFrame

\* cancelJob(jobId)
CancelJob ==
    /\ pc = "comments"
    /\ \E id \in DOMAIN retryJobs : retryJobs' = cancel(retryJobs, id)
    /\ UNCHANGED <<threads, backendThreads>>
    /\ CommentsFrame

NextComments == LoadAll \/ DeleteThread \/ RetryJob \/ CancelJob

SpecComments == InitComments /\ [][NextComments]_vars

(***************************************************************************)
(* Claims about the comment threads                                        *)
(***************************************************************************)
\* the retry job of the delete of thread t ran and succeeded in this step:
\* the job was pending and the backend held the thread, and now the job is
\* gone and the backend holds the thread no more
RetrySucceeded(t) ==
    /\ deleteJobId(t) \in DOMAIN retryJobs
    /\ t \in backendThreads
    /\ deleteJobId(t) \notin DOMAIN retryJobs'
    /\ t \notin backendThreads'

\* C30 (as stated): after a failed backend call of deleteThread the thread
\* is restored locally and a retry job is queued; once that retry job has
\* succeeded on the backend, list() and get() return the thread no more.
C30_AsStated ==
    [][\A t \in ThreadIds :
          RetrySucceeded(t) =>
              /\ \A i \in DOMAIN listOf(threads') : listOf(threads')[i].id # t
              /\ getOf(threads', t) = <<>>]_vars

====
